---- MODULE Spec2Model ----
(***************************************************************************)
(* Model of the UK-law-mcp document-structuring and citation engine:       *)
(*   - citation grammar   (src/citation/parser.ts, src/types/citations.ts) *)
(*   - search-query normalizer (src/utils/fts-query.ts)                    *)
(*   - mixed-content flattener, feed-index reader, markup tree walker      *)
(*     (scripts/lib/fetcher.ts)                                            *)
(* Text is modelled character by character: a string is a sequence of     *)
(* one-character strings, and every regular expression of the source is   *)
(* an operator over such sequences.                                        *)
(***************************************************************************)
EXTENDS Integers, Sequences, FiniteSets, TLC

VARIABLES
    citation, parsed, token, format, formatted, reparsed, cpc,  \* citation grammar
    query, variants, fpc,                                       \* search-query normalizer
    xml, flat1, flat2, xpc,                                     \* flattener
    feed, feedResult, apc,                                      \* feed-index reader
    doc, provisions, kpc,                                       \* tree walker
    db, validation, vpc,                                        \* citation validator
    refArgs, ref, rpc,                                          \* reference derivation
    site, page, hasMore, allEntries, index, lastFetch, fetched, dpc,\* act discovery
    acts, limit, seeds, pos, processed, skipped, failed, totalProvisions, visited, outcome, run, ipc,\* content ingestion
    now, lastRequestTime, calls, lastIssue, minGap, delays,     \* rate-limited client
    config, dbReady, dbHandle, tmpDb, tmpDbTmp, inv, invocations \* cold-start database of the HTTP endpoint

citeVars == <<citation, parsed, token, format, formatted, reparsed, cpc>>
ftsVars  == <<query, variants, fpc>>
flatVars == <<xml, flat1, flat2, xpc>>
feedVars == <<feed, feedResult, apc>>
aknVars  == <<doc, provisions, kpc>>
valVars  == <<db, validation, vpc>>
refVars  == <<refArgs, ref, rpc>>
discVars == <<site, page, hasMore, allEntries, index, lastFetch, fetched, dpc>>
ingVars == <<acts, limit, seeds, pos, processed, skipped, failed, totalProvisions, visited, outcome, run, ipc>>
fetchVars == <<now, lastRequestTime, calls, lastIssue, minGap, delays>>
mcpVars == <<config, dbReady, dbHandle, tmpDb, tmpDbTmp, inv, invocations>>
vars == <<citeVars, ftsVars, flatVars, feedVars, aknVars, valVars, refVars, discVars, ingVars, fetchVars, mcpVars>>

----------------------------------------------------------------------------
(* Character classes and string helpers (JavaScript semantics)             *)

Digits == <<"0", "1", "2", "3", "4", "5", "6", "7", "8", "9">>
UpperSeq == <<"A","B","C","D","E","F","G","H","I","J","K","L","M",
              "N","O","P","Q","R","S","T","U","V","W","X","Y","Z">>
LowerSeq == <<"a","b","c","d","e","f","g","h","i","j","k","l","m",
              "n","o","p","q","r","s","t","u","v","w","x","y","z">>

Range(f) == {f[i] : i \in DOMAIN f}

IsDigit(c) == c \in Range(Digits)
IsUpper(c) == c \in Range(UpperSeq)
IsLower(c) == c \in Range(LowerSeq)
\* \s : the whitespace characters of the model's alphabet
IsWs(c) == c \in {" ", "\t"}
\* \w : [A-Za-z0-9_]
IsWord(c) == IsDigit(c) \/ IsUpper(c) \/ IsLower(c) \/ c = "_"

LowerOf(c) ==
    IF IsUpper(c) THEN LowerSeq[CHOOSE i \in DOMAIN UpperSeq : UpperSeq[i] = c] ELSE c

ToLower(s) == [i \in DOMAIN s |-> LowerOf(s[i])]

\* absent optional field (undefined)
NoneStr == <<"undefined">>
NoYear == -1
\* absent --limit argument (null); a given one carries its number
NoLimit == [given |-> FALSE, value |-> 0]

\* s.substring(i-1, j) with 1-based inclusive bounds, clamped to the string
Sub(s, i, j) ==
    LET lo == IF i < 1 THEN 1 ELSE i
        hi == IF j > Len(s) THEN Len(s) ELSE j
    IN IF lo > hi THEN <<>> ELSE SubSeq(s, lo, hi)

\* String.prototype.trim
RECURSIVE TrimLeft(_)
TrimLeft(s) == IF s # <<>> /\ IsWs(Head(s)) THEN TrimLeft(Tail(s)) ELSE s
RECURSIVE TrimRight(_)
TrimRight(s) ==
    IF s # <<>> /\ IsWs(s[Len(s)]) THEN TrimRight(Sub(s, 1, Len(s) - 1)) ELSE s
Trim(s) == TrimRight(TrimLeft(s))

\* String.prototype.includes
Contains(hay, needle) ==
    \E i \in 0..(Len(hay) - Len(needle)) : Sub(hay, i + 1, i + Len(needle)) = needle

\* named character classes, so that recursive scanners can take one as argument
InClass(cls, c) ==
    CASE cls = "digit"  -> IsDigit(c)
      [] cls = "ws"     -> IsWs(c)
      [] cls = "notws"  -> ~IsWs(c)
      [] cls = "notsep" -> ~IsWs(c) /\ c # ","
      [] cls = "abbrev" -> IsUpper(c) \/ IsDigit(c) \/ c = "&" \/ IsWs(c)
      [] cls = "ftstok" -> IsWord(c) \/ IsWs(c) \/ c = "-"

AllIn(s, i, j, cls) == \A k \in i..j : InClass(cls, s[k])

\* length of the maximal run of characters of class cls that starts at position i
RECURSIVE RunLen(_, _, _)
RunLen(s, i, cls) ==
    IF i <= Len(s) /\ InClass(cls, s[i]) THEN 1 + RunLen(s, i + 1, cls) ELSE 0

DigitVal(c) == (CHOOSE i \in DOMAIN Digits : Digits[i] = c) - 1

\* parseInt(s, 10) for a string of decimal digits
RECURSIVE ParseInt(_)
ParseInt(s) ==
    IF s = <<>> THEN 0 ELSE 10 * ParseInt(Sub(s, 1, Len(s) - 1)) + DigitVal(s[Len(s)])

\* String(n) for a non-negative integer
RECURSIVE NumToStr(_)
NumToStr(n) ==
    IF n < 10 THEN <<Digits[n + 1]>> ELSE NumToStr(n \div 10) \o <<Digits[(n % 10) + 1]>>

----------------------------------------------------------------------------
(* Citation grammar: src/citation/parser.ts                                *)

IsLetterCI(c) == IsLower(c) \/ IsUpper(c)

\* (?:\(\d+\))*  -- number of characters consumed, greedy, from position i
RECURSIVE NumGroupsLen(_, _)
NumGroupsLen(s, i) ==
    LET d == RunLen(s, i + 1, "digit") IN
    IF i <= Len(s) /\ s[i] = "(" /\ d >= 1 /\ i + d + 1 <= Len(s) /\ s[i + d + 1] = ")"
    THEN d + 2 + NumGroupsLen(s, i + d + 2)
    ELSE 0

\* (?:\([a-z]\))*  -- ci: the i flag of the enclosing expression
RECURSIVE LetGroupsLen(_, _, _)
LetGroupsLen(s, i, ci) ==
    IF i + 2 <= Len(s) /\ s[i] = "(" /\ s[i + 2] = ")"
       /\ (IF ci THEN IsLetterCI(s[i + 1]) ELSE IsLower(s[i + 1]))
    THEN 3 + LetGroupsLen(s, i + 3, ci)
    ELSE 0

\* t matches ^\d+(?:\(\d+\))*(?:\([a-z]\))*$
SectionTokenShape(t, ci) ==
    LET d == RunLen(t, 1, "digit")
        g == NumGroupsLen(t, d + 1)
        l == LetGroupsLen(t, d + g + 1, ci)
    IN d >= 1 /\ d + g + l = Len(t)

NoMatch == [ok |-> FALSE, sec |-> <<>>, title |-> <<>>, year |-> <<>>]

\* mutant: the keyword alternative accepts any leading letter
FullPrefixLen_AnyLetter(s) ==
    IF Len(s) >= 7 /\ ToLower(Sub(s, 1, 7)) = <<"s","e","c","t","i","o","n">> THEN 7
    ELSE IF Len(s) >= 1 /\ IsLetterCI(s[1])
         THEN (IF Len(s) >= 2 /\ s[2] = "." THEN 2 ELSE 1)
         ELSE 0

\* the prefix (?:Section|s\.?) under the i flag: number of characters, 0 if none
FullPrefixLen(s) ==
    IF Len(s) >= 7 /\ ToLower(Sub(s, 1, 7)) = <<"s","e","c","t","i","o","n">> THEN 7
    ELSE IF Len(s) >= 1 /\ LowerOf(s[1]) = "s"
         THEN (IF Len(s) >= 2 /\ s[2] = "." THEN 2 ELSE 1)
         ELSE 0

\* The tail \s+(\d{4})$ : Y is the position of the first digit of the year
YearPos(s) == Len(s) - 3
HasYear(s) ==
    /\ Len(s) >= 4
    /\ AllIn(s, YearPos(s), Len(s), "digit")

\* end (exclusive) of the lazy title that starts at p: the least e > p such
\* that s[e..Y-1] is a non-empty run of whitespace; 0 if there is none
TitleEnds(s, p) ==
    {e \in (p + 1)..(YearPos(s) - 1) : AllIn(s, e, YearPos(s) - 1, "ws")}
LazyTitleEnd(s, p) ==
    IF TitleEnds(s, p) = {} THEN 0
    ELSE CHOOSE e \in TitleEnds(s, p) : \A f \in TitleEnds(s, p) : e <= f

\* FULL_CITATION =
\*   /^(?:Section|s\.?)\s+(\d+(?:\(\d+\))*(?:\([a-z]\))*)\s*,?\s+(.+?)\s+(\d{4})$/i
\* The separator \s*,?\s+ is the only place where the backtracking matcher
\* has a choice: candidates <<a, c, b>> (whitespace, comma, whitespace) are
\* tried greedily, i.e. in decreasing lexicographic order.
FullSepCands(s, q) ==
    {x \in (0..RunLen(s, q, "ws")) \X {0, 1} \X (1..Len(s)) :
        /\ (x[2] = 1 => (q + x[1] <= Len(s) /\ s[q + x[1]] = ","))
        /\ q + x[1] + x[2] + x[3] - 1 <= Len(s)
        /\ AllIn(s, q + x[1] + x[2], q + x[1] + x[2] + x[3] - 1, "ws")
        /\ LazyTitleEnd(s, q + x[1] + x[2] + x[3]) # 0}

LexGE(x, y) ==
    \/ x[1] > y[1]
    \/ x[1] = y[1] /\ x[2] > y[2]
    \/ x[1] = y[1] /\ x[2] = y[2] /\ x[3] >= y[3]

MatchFull(s) ==
    LET pl == FullPrefixLen(s)
        w1 == RunLen(s, pl + 1, "ws")
        ts == pl + w1 + 1
        tl == RunLen(s, ts, "notsep")
        q  == ts + tl
        tok == Sub(s, ts, q - 1)
    IN
    IF pl = 0 \/ w1 = 0 \/ ~SectionTokenShape(tok, TRUE) \/ ~HasYear(s)
       \/ FullSepCands(s, q) = {}
    THEN NoMatch
    ELSE LET best == CHOOSE x \in FullSepCands(s, q) :
                        \A y \in FullSepCands(s, q) : LexGE(x, y)
             p == q + best[1] + best[2] + best[3]
             e == LazyTitleEnd(s, p)
         IN [ok |-> TRUE, sec |-> tok, title |-> Sub(s, p, e - 1),
             year |-> Sub(s, YearPos(s), Len(s))]

\* SHORT_CITATION =
\*   /^s\.?\s+(\d+(?:\(\d+\))*(?:\([a-z]\))*)\s+([A-Z][A-Z0-9&\s]*?)\s+(\d{4})$/
ShortTitleEnds(s, p) ==
    {e \in TitleEnds(s, p) : IsUpper(s[p]) /\ AllIn(s, p + 1, e - 1, "abbrev")}

MatchShort(s) ==
    LET pl == IF Len(s) >= 1 /\ s[1] = "s"
              THEN (IF Len(s) >= 2 /\ s[2] = "." THEN 2 ELSE 1)
              ELSE 0
        w1 == RunLen(s, pl + 1, "ws")
        ts == pl + w1 + 1
        tl == RunLen(s, ts, "notws")
        tok == Sub(s, ts, ts + tl - 1)
        w2 == RunLen(s, ts + tl, "ws")
        p == ts + tl + w2
    IN
    IF pl = 0 \/ w1 = 0 \/ ~SectionTokenShape(tok, FALSE) \/ w2 = 0 \/ ~HasYear(s)
       \/ ShortTitleEnds(s, p) = {}
    THEN NoMatch
    ELSE LET e == CHOOSE e1 \in ShortTitleEnds(s, p) :
                     \A f \in ShortTitleEnds(s, p) : e1 <= f
         IN [ok |-> TRUE, sec |-> tok, title |-> Sub(s, p, e - 1),
             year |-> Sub(s, YearPos(s), Len(s))]

\* mutant: SECTION_REF without its end anchor
MatchSectionRef_NoAnchor(t) ==
    LET d == RunLen(t, 1, "digit")
        m == RunLen(t, d + 2, "digit")
        hasSub == d + 1 <= Len(t) /\ t[d + 1] = "(" /\ m >= 1
                  /\ d + m + 2 <= Len(t) /\ t[d + m + 2] = ")"
        r == IF hasSub THEN d + m + 3 ELSE d + 1
        hasPar == r + 2 <= Len(t) /\ t[r] = "(" /\ IsLower(t[r + 1]) /\ t[r + 2] = ")"
    IN
    IF d >= 1
    THEN [ok |-> TRUE, section |-> Sub(t, 1, d),
          subsection |-> IF hasSub THEN Sub(t, d + 2, d + m + 1) ELSE NoneStr,
          paragraph |-> IF hasPar THEN <<t[r + 1]>> ELSE NoneStr]
    ELSE [ok |-> FALSE, section |-> <<>>, subsection |-> NoneStr, paragraph |-> NoneStr]

\* SECTION_REF = /^(\d+)(?:\((\d+)\))?(?:\(([a-z])\))?$/
MatchSectionRef(t) ==
    LET d == RunLen(t, 1, "digit")
        m == RunLen(t, d + 2, "digit")
        hasSub == d + 1 <= Len(t) /\ t[d + 1] = "(" /\ m >= 1
                  /\ d + m + 2 <= Len(t) /\ t[d + m + 2] = ")"
        r == IF hasSub THEN d + m + 3 ELSE d + 1
        hasPar == r + 2 <= Len(t) /\ t[r] = "(" /\ IsLower(t[r + 1]) /\ t[r + 2] = ")"
        end == IF hasPar THEN r + 3 ELSE r
    IN
    IF d >= 1 /\ end = Len(t) + 1
    THEN [ok |-> TRUE, section |-> Sub(t, 1, d),
          subsection |-> IF hasSub THEN Sub(t, d + 2, d + m + 1) ELSE NoneStr,
          paragraph |-> IF hasPar THEN <<t[r + 1]>> ELSE NoneStr]
    ELSE [ok |-> FALSE, section |-> <<>>, subsection |-> NoneStr, paragraph |-> NoneStr]

ErrPrefix ==
    <<"C","o","u","l","d"," ","n","o","t"," ","p","a","r","s","e"," ",
      "U","K"," ","c","i","t","a","t","i","o","n",":"," ","\"">>

parseSection(sectionStr, title, year, type) ==
    LET sectionMatch == MatchSectionRef(sectionStr) IN
    IF ~sectionMatch.ok
    THEN [valid |-> TRUE, type |-> type, title |-> Trim(title), year |-> year,
          section |-> sectionStr, subsection |-> NoneStr, paragraph |-> NoneStr,
          error |-> NoneStr]
    ELSE [valid |-> TRUE, type |-> type, title |-> Trim(title), year |-> year,
          section |-> sectionMatch.section,
          subsection |-> sectionMatch.subsection,
          paragraph |-> sectionMatch.paragraph,
          error |-> NoneStr]

\* the surface form that matched: first match wins
StageOne(trimmed) ==
    IF MatchFull(trimmed).ok THEN MatchFull(trimmed) ELSE MatchShort(trimmed)

\* mutant: the error message does not quote the input
parseCitation_GenericError(c) ==
    LET trimmed == Trim(c)
        match == StageOne(trimmed)
    IN
    IF match.ok
    THEN parseSection(match.sec, match.title, ParseInt(match.year), "statute")
    ELSE [valid |-> FALSE, type |-> "unknown", title |-> NoneStr, year |-> NoYear,
          section |-> NoneStr, subsection |-> NoneStr, paragraph |-> NoneStr,
          error |-> ErrPrefix \o <<"\"">>]

parseCitation(c) ==
    LET trimmed == Trim(c)
        match == StageOne(trimmed)
    IN
    IF match.ok
    THEN parseSection(match.sec, match.title, ParseInt(match.year), "statute")
    ELSE [valid |-> FALSE, type |-> "unknown", title |-> NoneStr, year |-> NoYear,
          section |-> NoneStr, subsection |-> NoneStr, paragraph |-> NoneStr,
          error |-> ErrPrefix \o trimmed \o <<"\"">>]

----------------------------------------------------------------------------
(* Citation formatter: src/types/citations.ts                              *)

buildPinpoint(p) ==
    LET ref0 == IF p.section = NoneStr THEN <<>> ELSE p.section
        ref1 == IF p.subsection # NoneStr /\ p.subsection # <<>>
                THEN ref0 \o <<"(">> \o p.subsection \o <<")">> ELSE ref0
    IN IF p.paragraph # NoneStr /\ p.paragraph # <<>>
       THEN ref1 \o <<"(">> \o p.paragraph \o <<")">> ELSE ref1

TitleYear(p) ==
    (IF p.title = NoneStr THEN <<>> ELSE p.title) \o <<" ">>
       \o (IF p.year = NoYear THEN <<>> ELSE NumToStr(p.year))

\* mutant: the guard on a missing section is dropped
formatCitation_NoSectionGuard(p, f) ==
    IF ~p.valid THEN <<>>
    ELSE CASE f = "full" ->
                Trim(<<"S","e","c","t","i","o","n"," ">> \o buildPinpoint(p)
                     \o <<",", " ">> \o TitleYear(p))
           [] f = "short" ->
                Trim(<<"s", ".", " ">> \o buildPinpoint(p) \o <<" ">> \o TitleYear(p))
           [] f = "pinpoint" ->
                <<"s", ".", " ">> \o buildPinpoint(p)
           [] OTHER ->
                Trim(<<"S","e","c","t","i","o","n"," ">> \o buildPinpoint(p)
                     \o <<",", " ">> \o TitleYear(p))

formatCitation(p, f) ==
    IF ~p.valid \/ p.section = NoneStr \/ p.section = <<>> THEN <<>>
    ELSE CASE f = "full" ->
                Trim(<<"S","e","c","t","i","o","n"," ">> \o buildPinpoint(p)
                     \o <<",", " ">> \o TitleYear(p))
           [] f = "short" ->
                Trim(<<"s", ".", " ">> \o buildPinpoint(p) \o <<" ">> \o TitleYear(p))
           [] f = "pinpoint" ->
                <<"s", ".", " ">> \o buildPinpoint(p)
           [] OTHER ->
                Trim(<<"S","e","c","t","i","o","n"," ">> \o buildPinpoint(p)
                     \o <<",", " ">> \o TitleYear(p))

CitationFormats == {"full", "short", "pinpoint"}

\* no citation yet
NullCitation ==
    [valid |-> FALSE, type |-> "none", title |-> NoneStr, year |-> NoYear,
     section |-> NoneStr, subsection |-> NoneStr, paragraph |-> NoneStr,
     error |-> NoneStr]

----------------------------------------------------------------------------
(* Citation validator: src/citation/validator.ts                           *)

\* SQLite's "s LIKE pat": % is any run of characters, _ is any one character,
\* every other character matches itself without regard to ASCII letter case
RECURSIVE LikeMatch(_, _)
LikeMatch(pat, s) ==
    IF pat = <<>> THEN s = <<>>
    ELSE IF Head(pat) = "%"
         THEN \E k \in 0..Len(s) : LikeMatch(Tail(pat), SubSeq(s, k + 1, Len(s)))
         ELSE /\ s # <<>>
              /\ (Head(pat) = "_" \/ LowerOf(Head(pat)) = LowerOf(Head(s)))
              /\ LikeMatch(Tail(pat), Tail(s))

\* `%${parsed.title}%${parsed.year ?? ''}%`
LikePattern(p) ==
    <<"%">> \o p.title \o <<"%">>
       \o (IF p.year = NoYear THEN <<>> ELSE NumToStr(p.year)) \o <<"%">>

\* SELECT ... FROM legal_documents WHERE title LIKE ? LIMIT 1: the first row
\* in table order whose title matches, 0 when there is none
LookupDocument(store, p) ==
    LET hits == {i \in DOMAIN store.documents :
                    LikeMatch(LikePattern(p), store.documents[i].title)}
    IN IF hits = {} THEN 0 ELSE CHOOSE i \in hits : \A j \in hits : i <= j

\* mutant: the provision is looked up in every document
LookupProvision_AnyDocument(store, id, section) ==
    \E r \in store.provisions : r.section = section

\* SELECT 1 FROM legal_provisions WHERE document_id = ? AND section = ?
LookupProvision(store, id, section) ==
    \E r \in store.provisions : r.document_id = id /\ r.section = section

\* no database handle (null)
NoDb == [null |-> TRUE, documents |-> <<>>, provisions |-> {}]

NotFoundWarning(p) ==
    <<"D", "o", "c", "u", "m", "e", "n", "t", " ", "\"">> \o p.title \o <<" ">>
       \o (IF p.year = NoYear THEN NoneStr ELSE NumToStr(p.year))
       \o <<"\"", " ", "n", "o", "t", " ", "f", "o", "u", "n", "d", " ", "i", "n", " ", "d", "a", "t", "a", "b", "a", "s", "e">>

RepealedWarning == <<"T", "h", "i", "s", " ", "s", "t", "a", "t", "u", "t", "e", " ", "h", "a", "s", " ", "b", "e", "e", "n", " ", "r", "e", "p", "e", "a", "l", "e", "d">>

SectionWarning(section, title) ==
    <<"S", "e", "c", "t", "i", "o", "n", " ">> \o section \o <<" ", "n", "o", "t", " ", "f", "o", "u", "n", "d", " ", "i", "n", " ">> \o title

InvalidFormatWarning == <<"I", "n", "v", "a", "l", "i", "d", " ", "c", "i", "t", "a", "t", "i", "o", "n", " ", "f", "o", "r", "m", "a", "t">>

NullValidation ==
    [raised |-> FALSE, citation |-> NullCitation, document_exists |-> FALSE,
     provision_exists |-> FALSE, document_title |-> NoneStr, status |-> "none",
     warnings |-> <<>>]

\* db.prepare on a null handle: a TypeError leaves validateCitation
Raised(p) == [NullValidation EXCEPT !.raised = TRUE, !.citation = p]

\* the result once the document row i has been found
\* mutant of ResolvedValidation: a citation with a subsection is never found
ResolvedValidation_Pinpoint(store, p, row) ==
    LET checked == p.section # NoneStr /\ p.section # <<>>
        provisionExists == /\ checked /\ p.subsection = NoneStr
                           /\ LookupProvision(store, row.id, p.section)
    IN [raised |-> FALSE, citation |-> p, document_exists |-> TRUE,
        provision_exists |-> provisionExists,
        document_title |-> row.title, status |-> row.status,
        warnings |-> <<>>]

ResolvedValidation(store, p, row) ==
    LET checked == p.section # NoneStr /\ p.section # <<>>
        provisionExists == checked /\ LookupProvision(store, row.id, p.section)
    IN [raised |-> FALSE, citation |-> p, document_exists |-> TRUE,
        provision_exists |-> provisionExists,
        document_title |-> row.title, status |-> row.status,
        warnings |->
           (IF row.status = "repealed" THEN <<RepealedWarning>> ELSE <<>>)
           \o (IF checked /\ ~provisionExists
               THEN <<SectionWarning(p.section, row.title)>> ELSE <<>>)]

\* validateCitation after const parsed = parseCitation(citation)
ValidationOf(store, p, i) ==
    IF ~p.valid
    THEN [NullValidation EXCEPT
            !.citation = p,
            !.warnings = <<IF p.error = NoneStr THEN InvalidFormatWarning ELSE p.error>>]
    ELSE IF store.null THEN Raised(p)
    ELSE IF i = 0
    THEN [NullValidation EXCEPT !.citation = p, !.warnings = <<NotFoundWarning(p)>>]
    ELSE ResolvedValidation(store, p, store.documents[i])

ParsedValidation(store, p) == ValidationOf(store, p, LookupDocument(store, p))

validateCitation(store, c) == ParsedValidation(store, parseCitation(c))

----------------------------------------------------------------------------
(* Search-query normalizer: src/utils/fts-query.ts                         *)

\* \bw\b occurs in s
HasWord(s, w) ==
    \E i \in 1..(Len(s) - Len(w) + 1) :
        /\ Sub(s, i, i + Len(w) - 1) = w
        /\ (i = 1 \/ ~IsWord(s[i - 1]))
        /\ (i + Len(w) > Len(s) \/ ~IsWord(s[i + Len(w)]))

\* mutant: the trailing-wildcard alternative \*$ is missing
EXPLICIT_FTS_SYNTAX_NoStar(s) ==
    \/ \E i \in DOMAIN s : s[i] = "\""
    \/ HasWord(s, <<"A", "N", "D">>)
    \/ HasWord(s, <<"O", "R">>)
    \/ HasWord(s, <<"N", "O", "T">>)

\* EXPLICIT_FTS_SYNTAX = /["""]|(\bAND\b)|(\bOR\b)|(\bNOT\b)|\*$/ .test(s)
EXPLICIT_FTS_SYNTAX(s) ==
    \/ \E i \in DOMAIN s : s[i] = "\""
    \/ HasWord(s, <<"A", "N", "D">>)
    \/ HasWord(s, <<"O", "R">>)
    \/ HasWord(s, <<"N", "O", "T">>)
    \/ (s # <<>> /\ s[Len(s)] = "*")

\* s.split(/\s+/)
RECURSIVE SplitWs(_)
SplitWs(s) ==
    LET i == RunLen(s, 1, "notws") IN
    IF i = Len(s) THEN <<s>>
    ELSE <<Sub(s, 1, i)>> \o SplitWs(Sub(s, i + 1 + RunLen(s, i + 1, "ws"), Len(s)))

\* mutant of StripToken: the token is kept as it is
StripToken_KeepAll(t) == t

\* t.replace(/[^\w\s-]/g, '')
StripToken(t) == SelectSeq(t, LAMBDA c : InClass("ftstok", c))

NonEmpty(t) == Len(t) > 0

\* Array.prototype.join
RECURSIVE Join(_, _)
Join(q, sep) ==
    IF q = <<>> THEN <<>>
    ELSE IF Len(q) = 1 THEN q[1]
    ELSE q[1] \o sep \o Join(Tail(q), sep)

QuotedPrefix(t) == <<"\"">> \o t \o <<"\"", "*">>
BarePrefix(t) == t \o <<"*">>

buildFtsQueryVariants(q) ==
    LET trimmed == Trim(q)
        tokens == [mi \in DOMAIN (SelectSeq(SplitWs(trimmed), NonEmpty)) |-> StripToken((SelectSeq(SplitWs(trimmed), NonEmpty))[mi])]
    IN
    IF EXPLICIT_FTS_SYNTAX(trimmed) THEN [primary |-> trimmed, fallback |-> NoneStr]
    ELSE IF Len(tokens) = 0 THEN [primary |-> trimmed, fallback |-> NoneStr]
    ELSE [primary |-> Join([mi \in DOMAIN (tokens) |-> QuotedPrefix((tokens)[mi])], <<" ">>),
          fallback |-> Join([mi \in DOMAIN (tokens) |-> BarePrefix((tokens)[mi])], <<" ", "O", "R", " ">>)]

\* queries: up to MaxQueryPieces pieces, each a character or an operator word
MaxQueryPieces == 4

QueryPieces ==
    {<<" ">>, <<"\"">>, <<"*">>, <<"a">>, <<".">>, <<"-">>,
     <<"O", "R">>, <<"A", "N", "D">>, <<"N", "O", "T">>}

RECURSIVE Concat(_)
Concat(q) == IF q = <<>> THEN <<>> ELSE Head(q) \o Concat(Tail(q))

PieceSeqs(n) == UNION {[1..k -> QueryPieces] : k \in 0..n}

QueryInputs(n) == {Concat(ps) : ps \in PieceSeqs(n)}

NullVariants == [primary |-> NoneStr, fallback |-> NoneStr]

----------------------------------------------------------------------------
(* Mixed-content flattener: scripts/lib/fetcher.ts                         *)

NoteRefName == <<"n", "o", "t", "e", "R", "e", "f">>
MarkerName == <<"m", "a", "r", "k", "e", "r">>
RefName == <<"r", "e", "f">>
InsName == <<"i", "n", "s">>
DelName == <<"d", "e", "l">>
AuthorialNoteName == <<"a", "u", "t", "h", "o", "r", "i", "a", "l", "N", "o", "t", "e">>

SelfClosingNames == {NoteRefName, MarkerName, RefName}
PairedNames == {InsName, DelName, RefName, AuthorialNoteName}

\* (?:name1|name2|...) matches at position i: the names that do (at most one,
\* no name being a prefix of another)
NamesAt(s, i, names) ==
    {n \in names : i + Len(n) - 1 <= Len(s) /\ Sub(s, i, i + Len(n) - 1) = n}

\* position of the first ">" at or after k, 0 if none
RECURSIVE FirstGt(_, _)
FirstGt(s, k) ==
    IF k > Len(s) THEN 0 ELSE IF s[k] = ">" THEN k ELSE FirstGt(s, k + 1)

\* <(?:names)\b[^>]*\/> at position i: position of the closing ">", 0 if no match
SelfClosingEnd(s, i, names) ==
    IF s[i] # "<" \/ NamesAt(s, i + 1, names) = {} THEN 0
    ELSE LET n == CHOOSE m \in NamesAt(s, i + 1, names) : TRUE
             k == i + 1 + Len(n)
             g == FirstGt(s, k)
         IN IF k <= Len(s) /\ ~IsWord(s[k]) /\ g > k /\ s[g - 1] = "/" THEN g ELSE 0

\* s.replace(/<(?:names)\b[^>]*\/>/g, '') from position i on
RECURSIVE StripSelfClosing(_, _, _)
StripSelfClosing(s, i, names) ==
    IF i > Len(s) THEN <<>>
    ELSE LET e == SelfClosingEnd(s, i, names) IN
         IF e > 0 THEN StripSelfClosing(s, e + 1, names)
         ELSE <<s[i]>> \o StripSelfClosing(s, i + 1, names)

\* <(?:names)\b[^>]*> at position i: position of its ">", 0 if no match
OpenTagEnd(s, i, names) ==
    IF s[i] # "<" \/ NamesAt(s, i + 1, names) = {} THEN 0
    ELSE LET n == CHOOSE m \in NamesAt(s, i + 1, names) : TRUE
             k == i + 1 + Len(n)
         IN IF k <= Len(s) /\ ~IsWord(s[k]) THEN FirstGt(s, k) ELSE 0

\* <\/(?:names)> at position c: position of its ">", 0 if no match
CloseTagEnd(s, c, names) ==
    IF c + 1 > Len(s) \/ s[c] # "<" \/ s[c + 1] # "/" \/ NamesAt(s, c + 2, names) = {}
    THEN 0
    ELSE LET n == CHOOSE m \in NamesAt(s, c + 2, names) : TRUE
             g == c + 2 + Len(n)
         IN IF g <= Len(s) /\ s[g] = ">" THEN g ELSE 0

\* ([\s\S]*?) followed by the closing tag: the first closing tag at or after c
RECURSIVE FirstClose(_, _, _)
FirstClose(s, c, names) ==
    IF c > Len(s) THEN 0
    ELSE IF CloseTagEnd(s, c, names) > 0 THEN c
    ELSE FirstClose(s, c + 1, names)

\* s.replace(/<(?:names)\b[^>]*>([\s\S]*?)<\/(?:names)>/g, '$1') from position i on
RECURSIVE UnwrapPaired(_, _, _)
UnwrapPaired(s, i, names) ==
    IF i > Len(s) THEN <<>>
    ELSE LET g == OpenTagEnd(s, i, names)
             c == IF g > 0 THEN FirstClose(s, g + 1, names) ELSE 0
         IN IF c > 0
            THEN Sub(s, g + 1, c - 1)
                    \o UnwrapPaired(s, CloseTagEnd(s, c, names) + 1, names)
            ELSE <<s[i]>> \o UnwrapPaired(s, i + 1, names)

flattenInlineElements(x) ==
    StripSelfClosing(
        UnwrapPaired(StripSelfClosing(x, 1, SelfClosingNames), 1, PairedNames),
        1, {NoteRefName})

\* markup texts: up to MaxXmlPieces pieces, each a tag or a character of text
MaxXmlPieces == 5

XmlPieces ==
    {<<"<", "i", "n", "s", ">">>, <<"<", "/", "i", "n", "s", ">">>,
     <<"<", "d", "e", "l", ">">>, <<"<", "/", "d", "e", "l", ">">>,
     <<"<", "n", "o", "t", "e", "R", "e", "f", "/", ">">>,
     <<"t">>}

XmlInputs(n) ==
    {Concat(ps) : ps \in UNION {[1..k -> XmlPieces] : k \in 0..n}}

----------------------------------------------------------------------------
(* Feed-index reader: scripts/lib/fetcher.ts                               *)

\* A feed is given by its elements in source order:
\*   [links : Seq([rel, href]), entries : Seq(entry), total : string or absent]
\*   entry = [title, id, links : Seq([rel, href]), updated]
\* The XML parser turns a child tag into an array when it is listed in
\* isArray ("entry" is, "link" is not) or when it occurs more than once.
IsArrayChild(items) == Len(items) >= 2

UkpgaPrefix == <<"/", "u", "k", "p", "g", "a", "/">>

\* /\/ukpga\/(\d{4})\/(\d+)/ matches at position i
UkpgaAt(s, i) ==
    /\ i + 12 <= Len(s)
    /\ Sub(s, i, i + 6) = UkpgaPrefix
    /\ AllIn(s, i + 7, i + 10, "digit")
    /\ s[i + 11] = "/"
    /\ InClass("digit", s[i + 12])

\* url.match(/\/ukpga\/(\d{4})\/(\d+)/): the leftmost match
UkpgaMatch(s) ==
    IF \E i \in DOMAIN s : UkpgaAt(s, i)
    THEN LET i == CHOOSE j \in DOMAIN s : UkpgaAt(s, j) /\ \A k \in 1..(j - 1) : ~UkpgaAt(s, k)
         IN [ok |-> TRUE, year |-> Sub(s, i + 7, i + 10),
             number |-> Sub(s, i + 12, i + 11 + RunLen(s, i + 12, "digit"))]
    ELSE [ok |-> FALSE, year |-> <<>>, number |-> <<>>]

\* s.replace(/\s+/g, ' ')
RECURSIVE CollapseWs(_)
CollapseWs(s) ==
    IF s = <<>> THEN <<>>
    ELSE IF IsWs(s[1]) THEN <<" ">> \o CollapseWs(Sub(s, 1 + RunLen(s, 1, "ws"), Len(s)))
    ELSE <<s[1]>> \o CollapseWs(Tail(s))

OrEmpty(x) == IF x = NoneStr THEN <<>> ELSE x

\* mutant: the first link is taken whatever its rel
extractLink_FirstOnly(links) ==
    IF Len(links) = 0 THEN <<>> ELSE OrEmpty(links[1].href)

extractLink(links) ==
    IF Len(links) = 0 THEN <<>>
    ELSE IF IsArrayChild(links)
    THEN IF \E i \in DOMAIN links : links[i].rel \in {"self", "alternate"}
         THEN LET i == CHOOSE j \in DOMAIN links :
                          /\ links[j].rel \in {"self", "alternate"}
                          /\ \A k \in 1..(j - 1) : links[k].rel \notin {"self", "alternate"}
              IN OrEmpty(links[i].href)
         ELSE OrEmpty(links[1].href)
    ELSE OrEmpty(links[1].href)

\* url = link || id
EntryUrl(entry) ==
    IF extractLink(entry.links) # <<>> THEN extractLink(entry.links) ELSE OrEmpty(entry.id)

EntryAccepted(entry) ==
    /\ entry.title # NoneStr /\ entry.title # <<>>
    /\ UkpgaMatch(EntryUrl(entry)).ok

LegislationUrl ==
    <<"h", "t", "t", "p", "s", ":", "/", "/", "w", "w", "w", ".", "l", "e", "g", "i",
      "s", "l", "a", "t", "i", "o", "n", ".", "g", "o", "v", ".", "u", "k">>

EntryStub(entry) ==
    LET m == UkpgaMatch(EntryUrl(entry))
        year == ParseInt(m.year)
        number == ParseInt(m.number)
    IN [title |-> Trim(CollapseWs(entry.title)),
        year |-> year,
        number |-> number,
        url |-> LegislationUrl \o UkpgaPrefix \o NumToStr(year) \o <<"/">> \o NumToStr(number),
        updated |-> OrEmpty(entry.updated)]

NoTotal == NoYear

FeedTotal(f) ==
    IF f.total = NoneStr \/ f.total = <<>> \/ ParseInt(f.total) = 0 THEN NoTotal
    ELSE ParseInt(f.total)

\* mutant: the zero-entries override of hasNextPage is missing
parseAtomFeed_NoOverride(f) ==
    [entries |-> [mi \in DOMAIN (SelectSeq(f.entries, EntryAccepted)) |-> EntryStub((SelectSeq(f.entries, EntryAccepted))[mi])],
     hasNextPage |-> IsArrayChild(f.links) /\ \E i \in DOMAIN f.links : f.links[i].rel = "next",
     totalResults |-> FeedTotal(f)]

parseAtomFeed(f) ==
    LET entries == [mi \in DOMAIN (SelectSeq(f.entries, EntryAccepted)) |-> EntryStub((SelectSeq(f.entries, EntryAccepted))[mi])]
        links == f.links
        hasNext == IsArrayChild(links) /\ \E i \in DOMAIN links : links[i].rel = "next"
    IN [entries |-> entries,
        hasNextPage |-> IF Len(entries) = 0 THEN FALSE ELSE hasNext,
        totalResults |-> FeedTotal(f)]

\* feed pages: up to MaxEntries entries and up to MaxFeedLinks feed-level links
MaxEntries == 2
MaxFeedLinks == 2

Url2018 == <<"/", "u", "k", "p", "g", "a", "/", "2", "0", "1", "8", "/", "1", "2">>
Url1998 == <<"/", "u", "k", "p", "g", "a", "/", "1", "9", "9", "8", "/", "7">>
UrlOther == <<"/", "u", "k", "s", "i", "/", "2", "0", "1", "8", "/", "1">>

Link(rel, href) == [rel |-> rel, href |-> href]

EntryLinkLists ==
    {<<>>, <<Link("other", Url2018)>>, <<Link("other", UrlOther)>>,
     <<Link("other", UrlOther), Link("self", Url2018)>>,
     <<Link("self", <<>>), Link("other", Url2018)>>}

FeedEntries ==
    [title : {<<>>, <<"A", " ", " ", "b">>}, id : {NoneStr, Url1998},
     links : EntryLinkLists, updated : {NoneStr}]

SeqsUpTo(S, n) == UNION {[1..k -> S] : k \in 0..n}

FeedInputs(nl, ne) ==
    [links : SeqsUpTo({Link("next", <<"n">>), Link("self", <<"s">>)}, nl),
     entries : SeqsUpTo(FeedEntries, ne),
     total : {NoneStr, <<"4", "2">>}]

NullFeedResult == [entries |-> <<>>, hasNextPage |-> FALSE, totalResults |-> NoTotal]

----------------------------------------------------------------------------
(* Markup tree walker: scripts/lib/fetcher.ts                              *)

\* A structural node of the parsed document:
\*   [kind, eId, num, heading, body, children]
\* children are the child elements in source order; the XML parser groups
\* them by tag name, so node[tag] is the subsequence of children of that kind.
\* body holds the text-bearing children that extractContentText reads:
\*   [text, content, p, block, intro, wrapUp, paragraph]
\* content/intro/wrapUp hold bodies, p/block hold items [obj, values] (a plain
\* string when obj is FALSE, an element with those text values otherwise),
\* paragraph holds [num, body]; intro and wrapUp have at most one element.

ChildrenOf(node, tag) == SelectSeq(node.children, LAMBDA c : c.kind = tag)

EmptyBody ==
    [text |-> NoneStr, content |-> <<>>, p |-> <<>>, block |-> <<>>,
     intro |-> <<>>, wrapUp |-> <<>>, paragraph |-> <<>>]

\* parts.filter(Boolean).join(' ').replace(/\s+/g, ' ').trim()
JoinParts(parts) == Trim(CollapseWs(Join(SelectSeq(parts, NonEmpty), <<" ">>)))

\* extractAllText over an element whose text values are given in key order
extractAllText(values) == JoinParts(values)

\* a <p> or <block> item: pushed as is when a string, else extractAllText
ItemText(item) == IF item.obj THEN extractAllText(item.values) ELSE item.values[1]

RECURSIVE extractContentText(_)
ParagraphContent(para) == Trim(extractContentText(para.body))
ParagraphKept(para) == ParagraphContent(para) # <<>>
ParagraphPart(para) ==
    (IF para.num # NoneStr /\ para.num # <<>> THEN para.num \o <<" ">> ELSE <<>>)
        \o ParagraphContent(para)

extractContentText(b) ==
    JoinParts(
        (IF b.text # NoneStr THEN <<b.text>> ELSE <<>>)
        \o [i \in DOMAIN b.content |-> extractContentText(b.content[i])]
        \o [mi \in DOMAIN (b.p) |-> ItemText((b.p)[mi])]
        \o [mi \in DOMAIN (b.block) |-> ItemText((b.block)[mi])]
        \o [i \in DOMAIN b.intro |-> extractContentText(b.intro[i])]
        \o [i \in DOMAIN b.wrapUp |-> extractContentText(b.wrapUp[i])]
        \o [mi \in DOMAIN (SelectSeq(b.paragraph, ParagraphKept)) |-> ParagraphPart((SelectSeq(b.paragraph, ParagraphKept))[mi])])

SectionDash == <<"s", "e", "c", "t", "i", "o", "n", "-">>

\* eId.match(/section-(\d+)$/): position of the match, 0 if none
SectionIdAt(eId) ==
    IF \E i \in DOMAIN eId :
          /\ Sub(eId, i, i + 7) = SectionDash
          /\ i + 8 <= Len(eId) /\ AllIn(eId, i + 8, Len(eId), "digit")
    THEN CHOOSE i \in DOMAIN eId :
          /\ Sub(eId, i, i + 7) = SectionDash
          /\ i + 8 <= Len(eId) /\ AllIn(eId, i + 8, Len(eId), "digit")
    ELSE 0

\* eId.match(/section-(\d+)-(\d+)$/): <<position, length of first group>>
SubsectionIdAt(eId) ==
    LET ms == {x \in (DOMAIN eId) \X (1..Len(eId)) :
                  /\ Sub(eId, x[1], x[1] + 7) = SectionDash
                  /\ x[1] + 8 + x[2] + 1 <= Len(eId)
                  /\ AllIn(eId, x[1] + 8, x[1] + 7 + x[2], "digit")
                  /\ eId[x[1] + 8 + x[2]] = "-"
                  /\ AllIn(eId, x[1] + 9 + x[2], Len(eId), "digit")}
    IN IF ms = {} THEN <<0, 0>> ELSE CHOOSE x \in ms : TRUE

KindName(kind) ==
    CASE kind = "section" -> <<"s", "e", "c", "t", "i", "o", "n">>
      [] kind = "subsection" -> <<"s", "u", "b", "s", "e", "c", "t", "i", "o", "n">>
      [] kind = "hcontainer" -> <<"h", "c", "o", "n", "t", "a", "i", "n", "e", "r">>
      [] kind = "part" -> <<"p", "a", "r", "t">>
      [] kind = "chapter" -> <<"c", "h", "a", "p", "t", "e", "r">>

\* num.replace(/[.\s]/g, '')
CleanNum(num) == SelectSeq(num, LAMBDA c : c # "." /\ ~IsWs(c))

\* mutant: the section-<n> patterns must match the whole identifier
buildProvisionRef_Anchored(eId, elementType, num) ==
    IF eId # <<>>
    THEN IF SectionIdAt(eId) = 1
         THEN <<"s">> \o Sub(eId, 9, Len(eId))
         ELSE IF SubsectionIdAt(eId)[1] = 1
         THEN LET d == SubsectionIdAt(eId)[2]
              IN <<"s">> \o Sub(eId, 9, 8 + d) \o <<"(">>
                    \o Sub(eId, 10 + d, Len(eId)) \o <<")">>
         ELSE eId
    ELSE IF num # NoneStr /\ num # <<>>
    THEN IF elementType = "section" THEN <<"s">> \o CleanNum(num) ELSE CleanNum(num)
    ELSE KindName(elementType) \o <<"-", "u", "n", "k", "n", "o", "w", "n">>

buildProvisionRef(eId, elementType, num) ==
    IF eId # <<>>
    THEN IF SectionIdAt(eId) # 0
         THEN <<"s">> \o Sub(eId, SectionIdAt(eId) + 8, Len(eId))
         ELSE IF SubsectionIdAt(eId)[1] # 0
         THEN LET i == SubsectionIdAt(eId)[1]
                  d == SubsectionIdAt(eId)[2]
              IN <<"s">> \o Sub(eId, i + 8, i + 7 + d) \o <<"(">>
                    \o Sub(eId, i + 9 + d, Len(eId)) \o <<")">>
         ELSE eId
    ELSE IF num # NoneStr /\ num # <<>>
    THEN IF elementType = "section" THEN <<"s">> \o CleanNum(num) ELSE CleanNum(num)
    ELSE KindName(elementType) \o <<"-", "u", "n", "k", "n", "o", "w", "n">>

\* no arguments yet
NullRefArgs == [eId |-> <<>>, elementType |-> "none", num |-> NoneStr]

\* the record pushed for a section or hcontainer element
OwnRecord(el, elementType) ==
    LET provisionRef == buildProvisionRef(el.eId, elementType, el.num) IN
    [provision_ref |-> provisionRef,
     section |-> IF el.num # NoneStr THEN el.num ELSE provisionRef,
     title |-> OrEmpty(el.heading),
     content |-> Trim(extractContentText(el.body))]

\* the record pushed for a subsection of section el
SubRecord(el, subEl) ==
    [provision_ref |-> buildProvisionRef(subEl.eId, "subsection", subEl.num),
     section |-> OrEmpty(el.num) \o <<"(">> \o OrEmpty(subEl.num) \o <<")">>,
     title |-> OrEmpty(el.heading),
     content |-> Trim(extractContentText(subEl.body))]

\* mutant: records are pushed without the emptiness test
HasContent_Always(el) == TRUE

\* if (content.trim()) provisions.push(...)
HasContent(el) == Trim(extractContentText(el.body)) # <<>>

PushIf(cond, rec) == IF cond THEN <<rec>> ELSE <<>>

\* an element without attributes and child elements reaches the walker as a
\* plain string (or as '' when it is empty), not as an object
IsTextOnly(el) ==
    /\ el.eId = <<>> /\ el.num = NoneStr /\ el.heading = NoneStr
    /\ el.children = <<>>
    /\ el.body = [EmptyBody EXCEPT !.text = el.body.text]

\* if (!element || typeof element !== 'object') continue
ObjectsOf(list) == SelectSeq(list, LAMBDA el : ~IsTextOnly(el))

SubRecords(el) ==
    LET subList == ObjectsOf(ChildrenOf(el, "subsection")) IN
    Concat([i \in DOMAIN subList |->
               PushIf(HasContent(subList[i]), SubRecord(el, subList[i]))])

\* processSections(node, provisions, parentContext): the records it pushes
processSections(node) ==
    LET list == ObjectsOf(ChildrenOf(node, "section")) IN
    Concat([i \in DOMAIN list |->
               PushIf(HasContent(list[i]), OwnRecord(list[i], "section"))
                  \o SubRecords(list[i])])

RECURSIVE extractProvisions(_)
RECURSIVE processElements(_, _)

\* processElements(node, elementName, provisions, parentContext)
processElements(node, elementName) ==
    LET list == ObjectsOf(ChildrenOf(node, elementName)) IN
    Concat([i \in DOMAIN list |->
               (IF elementName \in {"section", "hcontainer"}
                THEN PushIf(HasContent(list[i]), OwnRecord(list[i], elementName))
                ELSE <<>>)
                  \o extractProvisions(list[i])])

\* extractProvisions(node, provisions, parentContext)
extractProvisions(node) ==
    processElements(node, "part")
        \o processElements(node, "chapter")
        \o processSections(node)
        \o processElements(node, "hcontainer")

\* parseAknXml(...).provisions for a document whose parsed body is body
parseAknXml(body) == extractProvisions(body)

\* documents: up to MaxTop elements under the body, sections with up to
\* MaxSubs subsections
MaxTop == 2
MaxSubs == 2

PStr(t) == [obj |-> FALSE, values |-> <<t>>]
PObj(vs) == [obj |-> TRUE, values |-> vs]

BodyText(t) == [EmptyBody EXCEPT !.text = t]
BodyContentP(t) == [EmptyBody EXCEPT !.content = <<[EmptyBody EXCEPT !.p = <<PStr(t)>>]>>]
BodyIntroPara ==
    [EmptyBody EXCEPT
        !.intro = <<[EmptyBody EXCEPT !.p = <<PObj(<<<<"a", " ", " ", "b">>, <<" ">>>>)>>]>>,
        !.paragraph = <<[num |-> <<"(", "a", ")">>, body |-> BodyContentP(<<"c">>)],
                        [num |-> <<"(", "b", ")">>, body |-> BodyText(<<" ">>)]>>]
BodyBlank ==
    [EmptyBody EXCEPT
        !.text = <<" ">>,
        !.p = <<PStr(<<" ">>), PObj(<<<<>>, <<" ", " ">>>>)>>,
        !.paragraph = <<[num |-> <<"(", "a", ")">>, body |-> BodyText(<<" ">>)]>>]

Node(kind, eId, num, body, children) ==
    [kind |-> kind, eId |-> eId, num |-> num, heading |-> NoneStr,
     body |-> body, children |-> children]

IdSection1 == <<"s", "e", "c", "t", "i", "o", "n", "-", "1">>
IdSection12 == <<"s", "e", "c", "t", "i", "o", "n", "-", "1", "-", "2">>
IdSchedule == <<"s", "c", "h", "e", "d">>
Num1 == <<"1", ".">>
Num2 == <<"(", "2", ")">>

SubNodes ==
    {Node("subsection", <<>>, NoneStr, BodyBlank, <<>>),
     Node("subsection", IdSection12, Num2, BodyContentP(<<"a">>), <<>>),
     Node("subsection", <<>>, Num2, BodyText(<<"b">>), <<>>),
     Node("subsection", <<>>, NoneStr, BodyText(<<"c">>), <<>>)}

PlainSections ==
    {Node("section", e, n, b, <<>>) :
        e \in {<<>>, IdSection1}, n \in {NoneStr, Num1},
        b \in {BodyBlank, BodyContentP(<<"a">>), BodyIntroPara}}

SectionsWithSubs(ns) ==
    {Node("section", IdSection1, Num1, b, subs) :
        b \in {EmptyBody, BodyContentP(<<"a">>)},
        subs \in SeqsUpTo(SubNodes, ns) \ {<<>>}}

InnerSections ==
    {Node("section", <<>>, Num1, BodyContentP(<<"a">>), <<>>),
     Node("section", IdSection1, NoneStr, BodyBlank, <<>>)}

Containers ==
    {Node("part", <<>>, Num1, EmptyBody, <<sec>>) : sec \in InnerSections}
    \cup {Node("part", <<>>, NoneStr, EmptyBody,
               <<Node("chapter", <<>>, NoneStr, EmptyBody, <<sec>>)>>) :
             sec \in InnerSections}
    \cup {Node("hcontainer", e, NoneStr, b, <<>>) :
             e \in {<<>>, IdSchedule}, b \in {BodyBlank, BodyText(<<"a">>)}}
    \cup {Node("hcontainer", IdSchedule, Num1, EmptyBody, <<sec>>) : sec \in InnerSections}

SimpleNodes == PlainSections \cup Containers

\* nothing, or one subsection-free element
OptionalNode == {<<>>} \cup {<<n>> : n \in SimpleNodes}

\* a document is up to MaxTop subsection-free elements, or one section with
\* subsections with an optional such element on either side of it
AknInputs(nt, ns) ==
    {Node("body", <<>>, NoneStr, EmptyBody, top) : top \in SeqsUpTo(SimpleNodes, nt)}
    \cup {Node("body", <<>>, NoneStr, EmptyBody, pre \o <<sec>> \o post) :
             pre \in OptionalNode, sec \in SectionsWithSubs(ns),
             post \in OptionalNode}

----------------------------------------------------------------------------
(* Inputs of the citation grammar                                          *)

\* most numeric groups and most letter groups in a generated section token
MaxGroups == 2

RECURSIVE Rep(_, _)
Rep(s, k) == IF k = 0 THEN <<>> ELSE s \o Rep(s, k - 1)

SecNumber == <<"3">>
SubGroup == <<"(", "1", ")">>
ParGroups == {<<"(", "a", ")">>, <<"(", "A", ")">>}

GenToken(i, j, L) == SecNumber \o Rep(SubGroup, i) \o Rep(L, j)

SectionTokens(n) ==
    {GenToken(i, j, L) : i \in 0..n, j \in 0..n, L \in ParGroups}
        \cup {<<>>, <<"3", "(">>}

LeadSet == {<<>>, <<" ">>}
PrefixSet == {<<"S", "e", "c", "t", "i", "o", "n">>, <<"s">>, <<"s", ".">>,
              <<"S", ".">>, <<"x">>}
Sep1Set == {<<" ">>, <<>>}
Sep2Set == {<<" ">>, <<",", " ">>, <<",">>, <<" ", " ", " ">>}
TitleSet == {<<"T">>, <<"D", "p", " ", "A">>, <<",", " ", "T">>, <<>>}
YearSet == {<<"2", "0", "1", "8">>, <<"0", "9", "9", "9">>, <<"2", "0", "1">>}
TrailSet == {<<>>, <<" ">>}

\* "<prefix> <n>[,] <Title> <year>" with every part varied
SectionFirstInputs(n) ==
    {l \o p \o s1 \o t \o s2 \o ti \o <<" ">> \o y \o tr :
        l \in LeadSet, p \in PrefixSet, s1 \in Sep1Set, t \in SectionTokens(n),
        s2 \in Sep2Set, ti \in TitleSet, y \in YearSet, tr \in TrailSet}

\* "<Title> <year>, s. <n>"
TitleFirst(ti, y, n) == ti \o <<" ">> \o y \o <<",", " ", "s", ".", " ">> \o n
TFTitles == {<<"T">>, <<"D", "p", " ", "A">>}
TFYears == {<<"2", "0", "1", "8">>}
TFSections == {<<"3">>, <<"1", "2">>}
TitleFirstInputs ==
    {TitleFirst(ti, y, n) : ti \in TFTitles, y \in TFYears, n \in TFSections}

OtherInputs == {<<"n", "o", "t", " ", "a", " ", "c", "i", "t", "e">>, <<" ">>, <<>>}

CitationInputs(n) == SectionFirstInputs(n) \cup TitleFirstInputs \cup OtherInputs

----------------------------------------------------------------------------
(* Citation grammar as a state machine: parse, format, parse again         *)

CiteInit ==
    /\ citation \in CitationInputs(MaxGroups)
    /\ parsed = NullCitation /\ token = NoneStr
    /\ format = "none" /\ formatted = <<>> /\ reparsed = NullCitation
    /\ cpc = "input"
    /\ query = <<>> /\ variants = NullVariants /\ fpc = "idle"
    /\ xml = <<>> /\ flat1 = <<>> /\ flat2 = <<>> /\ xpc = "idle"
    /\ feed = <<>> /\ feedResult = NullFeedResult /\ apc = "idle"
    /\ doc = <<>> /\ provisions = <<>> /\ kpc = "idle"
    /\ db = NoDb /\ validation = NullValidation /\ vpc = "idle"
    /\ refArgs = NullRefArgs /\ ref = <<>> /\ rpc = "idle"
    /\ site = <<>> /\ page = 0 /\ hasMore = FALSE /\ allEntries = <<>> /\ index = <<>> /\ lastFetch = <<>> /\ fetched = 0 /\ dpc = "idle"
    /\ acts = <<>> /\ limit = NoLimit /\ seeds = <<>> /\ pos = 0 /\ processed = 0 /\ skipped = 0 /\ failed = 0 /\ totalProvisions = 0 /\ visited = <<>> /\ outcome = <<>> /\ run = 0 /\ ipc = "idle"
    /\ now = 0 /\ lastRequestTime = 0 /\ calls = <<>> /\ lastIssue = <<>> /\ minGap = <<>> /\ delays = 0
    /\ config = [envDb |-> FALSE, bundled |-> FALSE] /\ dbReady = FALSE /\ dbHandle = FALSE /\ tmpDb = <<>> /\ tmpDbTmp = <<>> /\ inv = <<>> /\ invocations = 0

ParseCitation ==
    /\ cpc = "input"
    /\ parsed' = parseCitation(citation)
    /\ token' = IF StageOne(Trim(citation)).ok THEN StageOne(Trim(citation)).sec
                ELSE NoneStr
    /\ cpc' = "parsed"
    /\ UNCHANGED <<citation, format, formatted, reparsed>>
    /\ UNCHANGED <<ftsVars, flatVars, feedVars, aknVars, valVars, refVars, discVars, ingVars, fetchVars, mcpVars>>

FormatCitation ==
    /\ cpc = "parsed"
    /\ \E f \in CitationFormats :
          /\ format' = f
          /\ formatted' = formatCitation(parsed, f)
    /\ cpc' = "formatted"
    /\ UNCHANGED <<citation, parsed, token, reparsed>>
    /\ UNCHANGED <<ftsVars, flatVars, feedVars, aknVars, valVars, refVars, discVars, ingVars, fetchVars, mcpVars>>

ReparseCitation ==
    /\ cpc = "formatted"
    /\ reparsed' = parseCitation(formatted)
    /\ cpc' = "reparsed"
    /\ UNCHANGED <<citation, parsed, token, format, formatted>>
    /\ UNCHANGED <<ftsVars, flatVars, feedVars, aknVars, valVars, refVars, discVars, ingVars, fetchVars, mcpVars>>

CiteNext == ParseCitation \/ FormatCitation \/ ReparseCitation

SpecCite == CiteInit /\ [][CiteNext]_vars

----------------------------------------------------------------------------
(* Surface forms, stated position by position                              *)

\* x matches \s*,?\s+ (sep = "either"), ,\s+ (sep = "comma") or \s+ (sep = "space")
IsSeparator(x, sep) ==
    /\ x # <<>>
    /\ IsWs(x[Len(x)])
    /\ CASE sep = "space"  -> \A k \in DOMAIN x : IsWs(x[k])
         [] sep = "comma"  -> x[1] = "," /\ \A k \in 2..Len(x) : IsWs(x[k])
         [] sep = "either" -> /\ \A k \in DOMAIN x : IsWs(x[k]) \/ x[k] = ","
                              /\ Cardinality({k \in DOMAIN x : x[k] = ","}) <= 1

\* s reads  <keyword> ws+ <n> <separator> <title> ws+ <4 digits>
HasForm(s, keywords, ci, sep) ==
    \E a \in {1, 2, 7} :
        /\ a <= Len(s)
        /\ (IF ci THEN ToLower(Sub(s, 1, a)) ELSE Sub(s, 1, a)) \in keywords
        /\ \E b \in (a + 1)..Len(s) :
            /\ AllIn(s, a + 1, b, "ws")
            /\ \E c \in (b + 1)..Len(s) :
                /\ SectionTokenShape(Sub(s, b + 1, c), TRUE)
                /\ \E d \in (c + 1)..Len(s) :
                    /\ IsSeparator(Sub(s, c + 1, d), sep)
                    /\ \E e \in (d + 1)..(Len(s) - 5) :
                        /\ AllIn(s, e + 1, Len(s) - 4, "ws")
                        /\ AllIn(s, Len(s) - 3, Len(s), "digit")

KwSection == <<"S", "e", "c", "t", "i", "o", "n">>
KwSDot == <<"s", ".">>

\* the two documented forms: "Section <n>, <Title> <year>" and "s. <n> <ABBREV> <year>"
DocumentedForm(s) ==
    \/ HasForm(s, {KwSection}, FALSE, "comma")
    \/ HasForm(s, {KwSDot}, FALSE, "space")

\* what the expressions accept: keyword in any case, dot and comma optional
LenientForm(s) ==
    HasForm(s, {ToLower(KwSection), <<"s">>, KwSDot}, TRUE, "either")

Parsed == cpc \in {"parsed", "formatted", "reparsed"}

----------------------------------------------------------------------------
(* Claims about the citation grammar                                       *)

\* C1: round trip -- for every valid parsed citation and every format,
\* parsing the formatted text is valid and recovers section, subsection and
\* paragraph, and for full/short also title and year.
C1_RoundTrip ==
    (cpc = "reparsed" /\ parsed.valid) =>
        /\ reparsed.valid
        /\ reparsed.section = parsed.section
        /\ reparsed.subsection = parsed.subsection
        /\ reparsed.paragraph = parsed.paragraph
        /\ (format \in {"full", "short"} =>
               reparsed.title = parsed.title /\ reparsed.year = parsed.year)

\* C7 (as stated): a citation is valid only if it has one of the two
\* documented surface forms.
C7_OnlyDocumentedForms ==
    (Parsed /\ parsed.valid) => DocumentedForm(Trim(citation))

\* C7 (amended): a citation is valid only if, after trimming, it reads
\* "Section|s|s." (any case), whitespace, a section token, an optional comma
\* within whitespace, a title, whitespace and a four-digit year.
C7_OnlyLenientForms ==
    (Parsed /\ parsed.valid) => LenientForm(Trim(citation))

\* C7 witness: a valid citation outside the documented forms
C7_Witness ==
    Parsed /\ parsed.valid /\ ~DocumentedForm(Trim(citation))

\* C8: "<Title> <year>, s. <n>" parses as valid with that title, year and
\* section, and its full format is "Section <n>, <Title> <year>".
C8_TitleFirst ==
    \A ti \in TFTitles, y \in TFYears, n \in TFSections :
        (Parsed /\ citation = TitleFirst(ti, y, n)) =>
            /\ parsed.valid
            /\ parsed.title = ti
            /\ parsed.year = ParseInt(y)
            /\ parsed.section = n
            /\ ((cpc = "formatted" /\ format = "full") =>
                  formatted = KwSection \o <<" ">> \o n \o <<",", " ">> \o ti
                                  \o <<" ">> \o y)

\* C9 (as stated): an input matching no surface form gives an invalid result
\* of type unknown whose error contains the original input.
C9_ErrorHasInput ==
    (Parsed /\ ~LenientForm(Trim(citation))) =>
        /\ ~parsed.valid
        /\ parsed.type = "unknown"
        /\ Contains(parsed.error, citation)

\* C9 (amended): an input matching no surface form gives an invalid result
\* of type unknown whose error contains the input with leading and trailing
\* whitespace removed.
C9_ErrorHasTrimmedInput ==
    (Parsed /\ ~LenientForm(Trim(citation))) =>
        /\ ~parsed.valid
        /\ parsed.type = "unknown"
        /\ Contains(parsed.error, Trim(citation))

\* C9 witness: an unparseable input with surrounding whitespace was rejected
C9_Witness ==
    /\ Parsed /\ ~parsed.valid
    /\ Trim(citation) # citation /\ Trim(citation) # <<>>
    /\ ~Contains(parsed.error, citation)

\* C10: a matched token n, n(m) or n(m)(x) is decomposed into section,
\* subsection and paragraph; a matched token the finer pattern cannot
\* decompose is kept whole as the section, without subsection or paragraph.
C10_Stage2 ==
    (Parsed /\ token # NoneStr) =>
        /\ parsed.valid
        /\ \A i \in 0..MaxGroups, j \in 0..MaxGroups, L \in ParGroups :
              token = GenToken(i, j, L) =>
                 IF i <= 1 /\ j <= 1 /\ (j = 0 \/ IsLower(L[2]))
                 THEN /\ parsed.section = SecNumber
                      /\ parsed.subsection = (IF i = 1 THEN <<"1">> ELSE NoneStr)
                      /\ parsed.paragraph = (IF j = 1 THEN <<L[2]>> ELSE NoneStr)
                 ELSE /\ parsed.section = token
                      /\ parsed.subsection = NoneStr
                      /\ parsed.paragraph = NoneStr

\* C10 witness: a token with several numeric groups was kept whole
C10_Witness ==
    /\ cpc = "parsed" /\ parsed.valid
    /\ token = GenToken(2, 0, <<"(", "a", ")">>)
    /\ parsed.section = token

----------------------------------------------------------------------------
(* Search-query normalizer as a state machine                              *)

FtsInit ==
    /\ citation = <<>> /\ parsed = NullCitation /\ token = NoneStr
    /\ format = "none" /\ formatted = <<>> /\ reparsed = NullCitation
    /\ cpc = "idle"
    /\ query \in QueryInputs(MaxQueryPieces) /\ variants = NullVariants /\ fpc = "input"
    /\ xml = <<>> /\ flat1 = <<>> /\ flat2 = <<>> /\ xpc = "idle"
    /\ feed = <<>> /\ feedResult = NullFeedResult /\ apc = "idle"
    /\ doc = <<>> /\ provisions = <<>> /\ kpc = "idle"
    /\ db = NoDb /\ validation = NullValidation /\ vpc = "idle"
    /\ refArgs = NullRefArgs /\ ref = <<>> /\ rpc = "idle"
    /\ site = <<>> /\ page = 0 /\ hasMore = FALSE /\ allEntries = <<>> /\ index = <<>> /\ lastFetch = <<>> /\ fetched = 0 /\ dpc = "idle"
    /\ acts = <<>> /\ limit = NoLimit /\ seeds = <<>> /\ pos = 0 /\ processed = 0 /\ skipped = 0 /\ failed = 0 /\ totalProvisions = 0 /\ visited = <<>> /\ outcome = <<>> /\ run = 0 /\ ipc = "idle"
    /\ now = 0 /\ lastRequestTime = 0 /\ calls = <<>> /\ lastIssue = <<>> /\ minGap = <<>> /\ delays = 0
    /\ config = [envDb |-> FALSE, bundled |-> FALSE] /\ dbReady = FALSE /\ dbHandle = FALSE /\ tmpDb = <<>> /\ tmpDbTmp = <<>> /\ inv = <<>> /\ invocations = 0

BuildFtsQueryVariants ==
    /\ fpc = "input"
    /\ variants' = buildFtsQueryVariants(query)
    /\ fpc' = "built"
    /\ UNCHANGED query
    /\ UNCHANGED <<citeVars, flatVars, feedVars, aknVars, valVars, refVars, discVars, ingVars, fetchVars, mcpVars>>

FtsNext == BuildFtsQueryVariants

SpecFts == FtsInit /\ [][FtsNext]_vars

\* the query has a double quote, a free-standing AND, OR or NOT, or ends in *
StartsWordAt(s, i, w) ==
    /\ i + Len(w) - 1 <= Len(s)
    /\ \A k \in 1..Len(w) : s[i + k - 1] = w[k]
    /\ (i > 1 => ~IsWord(s[i - 1]))
    /\ (i + Len(w) <= Len(s) => ~IsWord(s[i + Len(w)]))

HasExplicitSyntax(s) ==
    \/ "\"" \in Range(s)
    \/ \E i \in DOMAIN s, w \in {<<"A", "N", "D">>, <<"O", "R">>, <<"N", "O", "T">>} :
          StartsWordAt(s, i, w)
    \/ (Len(s) > 0 /\ s[Len(s)] = "*")

\* C6 (as stated): a query with explicit full-text-search syntax comes back
\* unchanged as primary, with no fallback.
C6_PassThroughUnchanged ==
    (fpc = "built" /\ HasExplicitSyntax(query)) =>
        variants.primary = query /\ variants.fallback = NoneStr

\* C6 (amended): a query with explicit full-text-search syntax comes back
\* as primary with only its leading and trailing whitespace removed, and
\* with no fallback.
C6_PassThroughTrimmed ==
    (fpc = "built" /\ HasExplicitSyntax(query)) =>
        variants.primary = Trim(query) /\ variants.fallback = NoneStr

\* C6 witness: a whitespace-padded query with explicit syntax was passed through
C6_Witness ==
    /\ fpc = "built" /\ HasExplicitSyntax(query)
    /\ Trim(query) # query
    /\ variants.primary = Trim(query)

----------------------------------------------------------------------------
(* Flattener as a state machine: flatten, then flatten the result again    *)

FlatInit ==
    /\ citation = <<>> /\ parsed = NullCitation /\ token = NoneStr
    /\ format = "none" /\ formatted = <<>> /\ reparsed = NullCitation
    /\ cpc = "idle"
    /\ query = <<>> /\ variants = NullVariants /\ fpc = "idle"
    /\ xml \in XmlInputs(MaxXmlPieces) /\ flat1 = <<>> /\ flat2 = <<>> /\ xpc = "input"
    /\ feed = <<>> /\ feedResult = NullFeedResult /\ apc = "idle"
    /\ doc = <<>> /\ provisions = <<>> /\ kpc = "idle"
    /\ db = NoDb /\ validation = NullValidation /\ vpc = "idle"
    /\ refArgs = NullRefArgs /\ ref = <<>> /\ rpc = "idle"
    /\ site = <<>> /\ page = 0 /\ hasMore = FALSE /\ allEntries = <<>> /\ index = <<>> /\ lastFetch = <<>> /\ fetched = 0 /\ dpc = "idle"
    /\ acts = <<>> /\ limit = NoLimit /\ seeds = <<>> /\ pos = 0 /\ processed = 0 /\ skipped = 0 /\ failed = 0 /\ totalProvisions = 0 /\ visited = <<>> /\ outcome = <<>> /\ run = 0 /\ ipc = "idle"
    /\ now = 0 /\ lastRequestTime = 0 /\ calls = <<>> /\ lastIssue = <<>> /\ minGap = <<>> /\ delays = 0
    /\ config = [envDb |-> FALSE, bundled |-> FALSE] /\ dbReady = FALSE /\ dbHandle = FALSE /\ tmpDb = <<>> /\ tmpDbTmp = <<>> /\ inv = <<>> /\ invocations = 0

Flatten ==
    /\ xpc = "input"
    /\ flat1' = flattenInlineElements(xml)
    /\ xpc' = "once"
    /\ UNCHANGED <<xml, flat2>>
    /\ UNCHANGED <<citeVars, ftsVars, feedVars, aknVars, valVars, refVars, discVars, ingVars, fetchVars, mcpVars>>

FlattenAgain ==
    /\ xpc = "once"
    /\ flat2' = flattenInlineElements(flat1)
    /\ xpc' = "twice"
    /\ UNCHANGED <<xml, flat1>>
    /\ UNCHANGED <<citeVars, ftsVars, feedVars, aknVars, valVars, refVars, discVars, ingVars, fetchVars, mcpVars>>

FlatNext == Flatten \/ FlattenAgain

SpecFlat == FlatInit /\ [][FlatNext]_vars

\* C4: flattening is idempotent -- flattening flattened text changes nothing.
C4_Idempotent == (xpc = "twice") => flat2 = flat1

----------------------------------------------------------------------------
(* Feed-index reader as a state machine                                    *)

FeedInit ==
    /\ citation = <<>> /\ parsed = NullCitation /\ token = NoneStr
    /\ format = "none" /\ formatted = <<>> /\ reparsed = NullCitation
    /\ cpc = "idle"
    /\ query = <<>> /\ variants = NullVariants /\ fpc = "idle"
    /\ xml = <<>> /\ flat1 = <<>> /\ flat2 = <<>> /\ xpc = "idle"
    /\ feed \in FeedInputs(MaxFeedLinks, MaxEntries) /\ feedResult = NullFeedResult /\ apc = "input"
    /\ doc = <<>> /\ provisions = <<>> /\ kpc = "idle"
    /\ db = NoDb /\ validation = NullValidation /\ vpc = "idle"
    /\ refArgs = NullRefArgs /\ ref = <<>> /\ rpc = "idle"
    /\ site = <<>> /\ page = 0 /\ hasMore = FALSE /\ allEntries = <<>> /\ index = <<>> /\ lastFetch = <<>> /\ fetched = 0 /\ dpc = "idle"
    /\ acts = <<>> /\ limit = NoLimit /\ seeds = <<>> /\ pos = 0 /\ processed = 0 /\ skipped = 0 /\ failed = 0 /\ totalProvisions = 0 /\ visited = <<>> /\ outcome = <<>> /\ run = 0 /\ ipc = "idle"
    /\ now = 0 /\ lastRequestTime = 0 /\ calls = <<>> /\ lastIssue = <<>> /\ minGap = <<>> /\ delays = 0
    /\ config = [envDb |-> FALSE, bundled |-> FALSE] /\ dbReady = FALSE /\ dbHandle = FALSE /\ tmpDb = <<>> /\ tmpDbTmp = <<>> /\ inv = <<>> /\ invocations = 0

ParseAtomFeed ==
    /\ apc = "input"
    /\ feedResult' = parseAtomFeed(feed)
    /\ apc' = "parsed"
    /\ UNCHANGED feed
    /\ UNCHANGED <<citeVars, ftsVars, flatVars, aknVars, valVars, refVars, discVars, ingVars, fetchVars, mcpVars>>

FeedNext == ParseAtomFeed

SpecFeed == FeedInit /\ [][FeedNext]_vars

\* C5: a page never reports a next page together with an empty entries list,
\* even when the feed carries a rel="next" link.
C5_NoNextOnEmptyPage ==
    (apc = "parsed") => ~(feedResult.hasNextPage /\ feedResult.entries = <<>>)

\* C5 witness: a page with a rel="next" link among several links and entries
\* none of which is a valid stub was parsed
C5_Witness ==
    /\ apc = "parsed"
    /\ Len(feed.links) >= 2 /\ \E i \in DOMAIN feed.links : feed.links[i].rel = "next"
    /\ feed.entries # <<>>
    /\ feedResult.entries = <<>>
    /\ ~feedResult.hasNextPage

----------------------------------------------------------------------------
(* Tree walker as a state machine                                          *)

AknInit ==
    /\ citation = <<>> /\ parsed = NullCitation /\ token = NoneStr
    /\ format = "none" /\ formatted = <<>> /\ reparsed = NullCitation
    /\ cpc = "idle"
    /\ query = <<>> /\ variants = NullVariants /\ fpc = "idle"
    /\ xml = <<>> /\ flat1 = <<>> /\ flat2 = <<>> /\ xpc = "idle"
    /\ feed = <<>> /\ feedResult = NullFeedResult /\ apc = "idle"
    /\ doc \in AknInputs(MaxTop, MaxSubs) /\ provisions = <<>> /\ kpc = "input"
    /\ db = NoDb /\ validation = NullValidation /\ vpc = "idle"
    /\ refArgs = NullRefArgs /\ ref = <<>> /\ rpc = "idle"
    /\ site = <<>> /\ page = 0 /\ hasMore = FALSE /\ allEntries = <<>> /\ index = <<>> /\ lastFetch = <<>> /\ fetched = 0 /\ dpc = "idle"
    /\ acts = <<>> /\ limit = NoLimit /\ seeds = <<>> /\ pos = 0 /\ processed = 0 /\ skipped = 0 /\ failed = 0 /\ totalProvisions = 0 /\ visited = <<>> /\ outcome = <<>> /\ run = 0 /\ ipc = "idle"
    /\ now = 0 /\ lastRequestTime = 0 /\ calls = <<>> /\ lastIssue = <<>> /\ minGap = <<>> /\ delays = 0
    /\ config = [envDb |-> FALSE, bundled |-> FALSE] /\ dbReady = FALSE /\ dbHandle = FALSE /\ tmpDb = <<>> /\ tmpDbTmp = <<>> /\ inv = <<>> /\ invocations = 0

ParseAknXml ==
    /\ kpc = "input"
    /\ provisions' = parseAknXml(doc)
    /\ kpc' = "parsed"
    /\ UNCHANGED doc
    /\ UNCHANGED <<citeVars, ftsVars, flatVars, feedVars, valVars, refVars, discVars, ingVars, fetchVars, mcpVars>>

AknNext == ParseAknXml

SpecAkn == AknInit /\ [][AknNext]_vars

\* C2: the provision_ref values of the records emitted for one document are
\* pairwise distinct.
C2_UniqueRefs ==
    (kpc = "parsed") =>
        \A i, j \in DOMAIN provisions :
            provisions[i].provision_ref = provisions[j].provision_ref => i = j

\* C3: every emitted record has content that is non-empty after trimming; a
\* node whose text is empty or whitespace-only yields no record.
C3_NoEmptyContent ==
    (kpc = "parsed") =>
        \A i \in DOMAIN provisions :
            /\ provisions[i].content # <<>>
            /\ \E k \in DOMAIN provisions[i].content : ~IsWs(provisions[i].content[k])

\* C3 witness: a document with a whitespace-only section and a section with
\* text was walked, and only the latter was emitted
C3_Witness ==
    /\ kpc = "parsed"
    /\ Len(doc.children) = 2
    /\ doc.children[1].kind = "section" /\ doc.children[1].body = BodyBlank
    /\ doc.children[1].children = <<>>
    /\ doc.children[2].kind = "section" /\ doc.children[2].body = BodyContentP(<<"a">>)
    /\ doc.children[2].children = <<>>
    /\ Len(provisions) = 1

----------------------------------------------------------------------------
(* Formatter over every ParsedCitation the type admits                     *)

\* ParsedCitation values: every optional field absent, empty or set
ParsedInputs ==
    [valid : BOOLEAN, type : {"statute", "unknown"},
     title : {NoneStr, <<>>, <<"T">>, <<"A", " ", "B">>},
     year : {NoYear, 2018, 999},
     section : {NoneStr, <<>>, <<"3">>, <<"1", "2", "A">>},
     subsection : {NoneStr, <<>>, <<"1">>},
     paragraph : {NoneStr, <<"a">>},
     error : {NoneStr}]

FmtInit ==
    /\ citation = <<>> /\ parsed \in ParsedInputs /\ token = NoneStr
    /\ format = "none" /\ formatted = <<>> /\ reparsed = NullCitation
    /\ cpc = "parsed"
    /\ query = <<>> /\ variants = NullVariants /\ fpc = "idle"
    /\ xml = <<>> /\ flat1 = <<>> /\ flat2 = <<>> /\ xpc = "idle"
    /\ feed = <<>> /\ feedResult = NullFeedResult /\ apc = "idle"
    /\ doc = <<>> /\ provisions = <<>> /\ kpc = "idle"
    /\ db = NoDb /\ validation = NullValidation /\ vpc = "idle"
    /\ refArgs = NullRefArgs /\ ref = <<>> /\ rpc = "idle"
    /\ site = <<>> /\ page = 0 /\ hasMore = FALSE /\ allEntries = <<>> /\ index = <<>> /\ lastFetch = <<>> /\ fetched = 0 /\ dpc = "idle"
    /\ acts = <<>> /\ limit = NoLimit /\ seeds = <<>> /\ pos = 0 /\ processed = 0 /\ skipped = 0 /\ failed = 0 /\ totalProvisions = 0 /\ visited = <<>> /\ outcome = <<>> /\ run = 0 /\ ipc = "idle"
    /\ now = 0 /\ lastRequestTime = 0 /\ calls = <<>> /\ lastIssue = <<>> /\ minGap = <<>> /\ delays = 0
    /\ config = [envDb |-> FALSE, bundled |-> FALSE] /\ dbReady = FALSE /\ dbHandle = FALSE /\ tmpDb = <<>> /\ tmpDbTmp = <<>> /\ inv = <<>> /\ invocations = 0

FmtNext == FormatCitation

SpecFmt == FmtInit /\ [][FmtNext]_vars

\* a field is present: set and not the empty string
Present(x) == x # NoneStr /\ x # <<>>

\* an absent field renders as nothing
Shown(x) == IF x = NoneStr THEN <<>> ELSE x

\* <pinpoint> = section, "(<subsection>)" if present, "(<paragraph>)" if present
PinpointOf(p) ==
    Shown(p.section)
      \o (IF Present(p.subsection) THEN <<"(">> \o p.subsection \o <<")">> ELSE <<>>)
      \o (IF Present(p.paragraph) THEN <<"(">> \o p.paragraph \o <<")">> ELSE <<>>)

YearOf(p) == IF p.year = NoYear THEN <<>> ELSE NumToStr(p.year)

\* the three documented templates
TemplateOf(p, f) ==
    CASE f = "full" ->
            <<"S","e","c","t","i","o","n"," ">> \o PinpointOf(p) \o <<",", " ">>
               \o Shown(p.title) \o <<" ">> \o YearOf(p)
      [] f = "short" ->
            <<"s", ".", " ">> \o PinpointOf(p) \o <<" ">>
               \o Shown(p.title) \o <<" ">> \o YearOf(p)
      [] f = "pinpoint" -> <<"s", ".", " ">> \o PinpointOf(p)

----------------------------------------------------------------------------
(* Citation validator as a state machine                                   *)

\* most documents and most provision rows in a store
MaxDocs == 2
MaxRows == 2

DocTitles == {<<"T", " ", "2", "0", "1", "8">>, <<"T", "A", " ", "2", "0", "1", "8">>, <<"T", " ", "1", "9", "9", "9">>}
DocStatuses == {"in_force", "repealed"}
DocId(i) == <<"d", Digits[i + 1]>>
RowSections == {<<"3">>, <<"3", "A">>}

\* legal_documents in table order; the primary key follows the row
DocumentTables(nd) ==
    {[i \in DOMAIN ts |-> [id |-> DocId(i), title |-> ts[i][1], status |-> ts[i][2]]] :
        ts \in SeqsUpTo(DocTitles \X DocStatuses, nd)}

\* legal_provisions rows of a store with n documents (document_id is a
\* foreign key)
ProvisionTables(n, nr) ==
    {rows \in SUBSET [document_id : {DocId(i) : i \in 1..n}, section : RowSections] :
        Cardinality(rows) <= nr}

Stores(nd, nr) ==
    UNION {{[null |-> FALSE, documents |-> ds, provisions |-> rows] :
               rows \in ProvisionTables(Len(ds), nr)} : ds \in DocumentTables(nd)}

ValidatorCitations ==
    {<<"s", ".", " ", "3", " ", "T", " ", "2", "0", "1", "8">>, <<"S", "e", "c", "t", "i", "o", "n", " ", "3", "(", "1", ")", "(", "a", ")", ",", " ", "T", " ", "2", "0", "1", "8">>, <<"s", ".", " ", "3", "(", "2", ")", " ", "T", " ", "2", "0", "1", "8">>,
     <<"s", ".", " ", "3", "a", " ", "t", " ", "2", "0", "1", "8">>, <<"s", ".", " ", "3", "A", " ", "T", " ", "2", "0", "1", "8">>, <<"s", ".", " ", "9", " ", "T", " ", "2", "0", "1", "8">>,
     <<"s", ".", " ", "3", " ", "X", " ", "2", "0", "1", "8">>, <<"s", ".", " ", "3", " ", "T", " ", "2", "0", "2", "0">>, <<"s", ".", " ", "3", " ", "%", " ", "2", "0", "1", "8">>,
     <<"s", ".", " ", "3", " ", "_", " ", "2", "0", "1", "8">>, <<"T", " ", "2", "0", "1", "8">>, <<>>,
     <<"s", ".", " ", "3", "(", "1", ")", "(", "1", ")", " ", "T", " ", "2", "0", "1", "8">>}

ValInit ==
    /\ citation \in ValidatorCitations
    /\ parsed = NullCitation /\ token = NoneStr
    /\ format = "none" /\ formatted = <<>> /\ reparsed = NullCitation
    /\ cpc = "idle"
    /\ query = <<>> /\ variants = NullVariants /\ fpc = "idle"
    /\ xml = <<>> /\ flat1 = <<>> /\ flat2 = <<>> /\ xpc = "idle"
    /\ feed = <<>> /\ feedResult = NullFeedResult /\ apc = "idle"
    /\ doc = <<>> /\ provisions = <<>> /\ kpc = "idle"
    /\ db \in Stores(MaxDocs, MaxRows) \cup {NoDb}
    /\ validation = NullValidation /\ vpc = "input"
    /\ refArgs = NullRefArgs /\ ref = <<>> /\ rpc = "idle"
    /\ site = <<>> /\ page = 0 /\ hasMore = FALSE /\ allEntries = <<>> /\ index = <<>> /\ lastFetch = <<>> /\ fetched = 0 /\ dpc = "idle"
    /\ acts = <<>> /\ limit = NoLimit /\ seeds = <<>> /\ pos = 0 /\ processed = 0 /\ skipped = 0 /\ failed = 0 /\ totalProvisions = 0 /\ visited = <<>> /\ outcome = <<>> /\ run = 0 /\ ipc = "idle"
    /\ now = 0 /\ lastRequestTime = 0 /\ calls = <<>> /\ lastIssue = <<>> /\ minGap = <<>> /\ delays = 0
    /\ config = [envDb |-> FALSE, bundled |-> FALSE] /\ dbReady = FALSE /\ dbHandle = FALSE /\ tmpDb = <<>> /\ tmpDbTmp = <<>> /\ inv = <<>> /\ invocations = 0

ValidateCitation ==
    /\ vpc = "input"
    /\ validation' = validateCitation(db, citation)
    /\ vpc' = "done"
    /\ UNCHANGED db
    /\ UNCHANGED <<citeVars, ftsVars, flatVars, feedVars, aknVars, refVars, discVars, ingVars, fetchVars, mcpVars>>

ValNext == ValidateCitation

SpecVal == ValInit /\ [][ValNext]_vars

\* the title t of a document contains the cited title and, after it, the
\* cited year, letter case aside
NamesDocument(p, t) ==
    \E i \in 0..Len(t) : \E j \in (i + Len(p.title))..Len(t) :
        /\ ToLower(Sub(t, i + 1, i + Len(p.title))) = ToLower(p.title)
        /\ i + Len(p.title) <= Len(t)
        /\ Sub(t, j + 1, j + Len(NumToStr(p.year))) = NumToStr(p.year)
        /\ j + Len(NumToStr(p.year)) <= Len(t)

\* C12: with a store at hand, a valid citation whose title and year name no
\* document of the store gets (without an error raised) document_exists =
\* false, provision_exists = false and a warning holding the cited title and
\* year; a citation that does not parse gets both flags false and at least
\* one warning.
C12_MissingDocument ==
    (vpc = "done" /\ ~db.null) =>
        /\ ~validation.raised
        /\ ( /\ validation.citation.valid
             /\ \A i \in DOMAIN db.documents :
                   ~NamesDocument(validation.citation, db.documents[i].title) )
           => /\ ~validation.document_exists
              /\ ~validation.provision_exists
              /\ \E w \in DOMAIN validation.warnings :
                    /\ Contains(validation.warnings[w], validation.citation.title)
                    /\ Contains(validation.warnings[w], NumToStr(validation.citation.year))
        /\ ~validation.citation.valid
           => /\ ~validation.document_exists
              /\ ~validation.provision_exists
              /\ validation.warnings # <<>>

\* C13: for a valid citation whose document resolves, provision_exists holds
\* exactly when the store has a row of the resolved document whose section
\* equals the cited section character for character; when there is none, a
\* warning holds the section, and when there is one and the document is not
\* repealed, there are no warnings.
C13_ProvisionExact ==
    (vpc = "done" /\ validation.citation.valid /\ validation.document_exists) =>
        LET p == validation.citation
            row == db.documents[LookupDocument(db, p)]
            held == \E r \in db.provisions :
                       r.document_id = row.id /\ r.section = p.section
        IN /\ validation.provision_exists <=> held
           /\ ~held => \E w \in DOMAIN validation.warnings :
                          Contains(validation.warnings[w], <<"S","e","c","t","i","o","n"," ">> \o p.section)
           /\ (held /\ row.status # "repealed") => validation.warnings = <<>>

\* C13 witness: the cited section 3 is held only by another document than
\* the resolved one, and is reported missing
C13_Witness ==
    /\ vpc = "done"
    /\ citation = <<"s", ".", " ", "3", " ", "T", " ", "2", "0", "1", "8">>
    /\ Len(db.documents) = 2
    /\ db.provisions = {[document_id |-> DocId(2), section |-> <<"3">>]}
    /\ validation.document_exists /\ ~validation.provision_exists
    /\ validation.document_title = <<"T", " ", "2", "0", "1", "8">>

\* C14: without a database handle validateCitation raises an error for
\* every citation, whether it parses or not.
C14_NoStoreFailsLoudly ==
    (vpc = "done" /\ db.null) => validation.raised

\* the records of the elements under node, taken in the order the elements
\* occur in the source: a section's own record, then its subsections'; a
\* schedule's own record, then what it contains; a part's or chapter's
\* contents; nothing for an element the walker sees as a plain string
RECURSIVE PreOrder(_)
PreOrder(node) ==
    Concat([i \in DOMAIN node.children |->
        LET c == node.children[i] IN
        CASE IsTextOnly(c) -> <<>>
          [] c.kind = "section" ->
                PushIf(HasContent(c), OwnRecord(c, "section")) \o SubRecords(c)
          [] c.kind = "hcontainer" ->
                PushIf(HasContent(c), OwnRecord(c, "hcontainer")) \o PreOrder(c)
          [] c.kind \in {"part", "chapter"} -> PreOrder(c)
          [] OTHER -> <<>>])

\* C15: the provisions list is the pre-order traversal of the document in
\* source order, also when siblings of different kinds are interleaved.
C15_DocumentOrder ==
    (kpc = "parsed") => provisions = PreOrder(doc)

----------------------------------------------------------------------------
(* Reference derivation as a state machine                                 *)

RefIds ==
    {<<>>, <<"s", "e", "c", "t", "i", "o", "n", "-", "1">>, <<"s", "e", "c", "t", "i", "o", "n", "-", "1", "2">>, <<"s", "e", "c", "t", "i", "o", "n", "-", "1", "-", "2">>,
     <<"s", "u", "b", "s", "e", "c", "t", "i", "o", "n", "-", "1">>, <<"x", "-", "s", "e", "c", "t", "i", "o", "n", "-", "3", "-", "4">>, <<"s", "c", "h", "e", "d">>, <<"s", "e", "c", "t", "i", "o", "n", "-", "1", "A">>,
     <<"s", "e", "c", "t", "i", "o", "n", "-">>}
RefKinds == {"section", "subsection", "hcontainer"}
RefNums == {NoneStr, <<>>, <<"1", ".">>, <<"(", "2", ")">>, <<"3", " ", "A">>, <<"3">>}

RefInit ==
    /\ citation = <<>> /\ parsed = NullCitation /\ token = NoneStr
    /\ format = "none" /\ formatted = <<>> /\ reparsed = NullCitation
    /\ cpc = "idle"
    /\ query = <<>> /\ variants = NullVariants /\ fpc = "idle"
    /\ xml = <<>> /\ flat1 = <<>> /\ flat2 = <<>> /\ xpc = "idle"
    /\ feed = <<>> /\ feedResult = NullFeedResult /\ apc = "idle"
    /\ doc = <<>> /\ provisions = <<>> /\ kpc = "idle"
    /\ db = NoDb /\ validation = NullValidation /\ vpc = "idle"
    /\ refArgs \in [eId : RefIds, elementType : RefKinds, num : RefNums]
    /\ ref = <<>> /\ rpc = "input"
    /\ site = <<>> /\ page = 0 /\ hasMore = FALSE /\ allEntries = <<>> /\ index = <<>> /\ lastFetch = <<>> /\ fetched = 0 /\ dpc = "idle"
    /\ acts = <<>> /\ limit = NoLimit /\ seeds = <<>> /\ pos = 0 /\ processed = 0 /\ skipped = 0 /\ failed = 0 /\ totalProvisions = 0 /\ visited = <<>> /\ outcome = <<>> /\ run = 0 /\ ipc = "idle"
    /\ now = 0 /\ lastRequestTime = 0 /\ calls = <<>> /\ lastIssue = <<>> /\ minGap = <<>> /\ delays = 0
    /\ config = [envDb |-> FALSE, bundled |-> FALSE] /\ dbReady = FALSE /\ dbHandle = FALSE /\ tmpDb = <<>> /\ tmpDbTmp = <<>> /\ inv = <<>> /\ invocations = 0

BuildProvisionRef ==
    /\ rpc = "input"
    /\ ref' = buildProvisionRef(refArgs.eId, refArgs.elementType, refArgs.num)
    /\ rpc' = "built"
    /\ UNCHANGED refArgs
    /\ UNCHANGED <<citeVars, ftsVars, flatVars, feedVars, aknVars, valVars, discVars, ingVars, fetchVars, mcpVars>>

RefNext == BuildProvisionRef

SpecRef == RefInit /\ [][RefNext]_vars

DigitsOnly(s) == s # <<>> /\ \A i \in DOMAIN s : IsDigit(s[i])

\* the identifier is "section-<n>"
IsSectionId(eId, n) == DigitsOnly(n) /\ eId = SectionDash \o n

\* the identifier is "section-<n>-<m>"
IsSubsectionId(eId, n, m) ==
    DigitsOnly(n) /\ DigitsOnly(m) /\ eId = SectionDash \o n \o <<"-">> \o m

\* the identifier ends with "section-<n>"
EndsSectionId(eId, n) ==
    DigitsOnly(n) /\ \E k \in 0..Len(eId) : eId = Sub(eId, 1, k) \o SectionDash \o n

\* the identifier ends with "section-<n>-<m>"
EndsSubsectionId(eId, n, m) ==
    /\ DigitsOnly(n) /\ DigitsOnly(m)
    /\ \E k \in 0..Len(eId) : eId = Sub(eId, 1, k) \o SectionDash \o n \o <<"-">> \o m

\* pieces of an identifier that can stand for <n> or <m>
PiecesOf(eId) == {Sub(eId, i, j) : i, j \in DOMAIN eId}

\* a label without punctuation and whitespace
LettersAndDigits(num) == SelectSeq(num, LAMBDA c : IsDigit(c) \/ IsLetterCI(c))

\* a label without dots and whitespace
WithoutDots(num) == SelectSeq(num, LAMBDA c : c # "." /\ ~IsWs(c))

Placeholder(kind) == KindName(kind) \o <<"-", "u", "n", "k", "n", "o", "w", "n">>

\* C16: section-<n> gives s<n> and section-<n>-<m> gives s<n>(<m>) whatever
\* the num label; without such an identifier the reference is a short kind
\* code followed by the num label stripped of punctuation and whitespace;
\* without identifier and num label it is the lowercase kind placeholder.
C16_RefDerivation ==
    (rpc = "built") =>
        LET e == refArgs.eId
            hasId == \E n \in PiecesOf(e) :
                        IsSectionId(e, n) \/ \E m \in PiecesOf(e) : IsSubsectionId(e, n, m)
            hasNum == refArgs.num # NoneStr /\ refArgs.num # <<>>
            clean == LettersAndDigits(refArgs.num)
        IN /\ \A n \in PiecesOf(e) : IsSectionId(e, n) => ref = <<"s">> \o n
           /\ \A n, m \in PiecesOf(e) :
                 IsSubsectionId(e, n, m) => ref = <<"s">> \o n \o <<"(">> \o m \o <<")">>
           /\ (~hasId /\ hasNum) =>
                 /\ Len(ref) > Len(clean)
                 /\ Sub(ref, Len(ref) - Len(clean) + 1, Len(ref)) = clean
                 /\ refArgs.elementType = "section" => ref = <<"s">> \o clean
           /\ (~hasId /\ ~hasNum) => ref = Placeholder(refArgs.elementType)

\* C16 as amended: an identifier ending in section-<n> gives s<n> and one
\* ending in section-<n>-<m> gives s<n>(<m>), whatever the num label; any
\* other non-empty identifier is the reference as it stands; without an
\* identifier the reference is the num label without dots and whitespace,
\* prefixed by "s" for a section and unprefixed otherwise; without identifier
\* and num label it is "<kind>-unknown".
C16_RefAsBuilt ==
    (rpc = "built") =>
        LET e == refArgs.eId
            endsId == \E n \in PiecesOf(e) :
                         EndsSectionId(e, n) \/ \E m \in PiecesOf(e) : EndsSubsectionId(e, n, m)
            hasNum == refArgs.num # NoneStr /\ refArgs.num # <<>>
        IN /\ \A n \in PiecesOf(e) : EndsSectionId(e, n) => ref = <<"s">> \o n
           /\ \A n, m \in PiecesOf(e) :
                 EndsSubsectionId(e, n, m) => ref = <<"s">> \o n \o <<"(">> \o m \o <<")">>
           /\ (e # <<>> /\ ~endsId) => ref = e
           /\ (e = <<>> /\ hasNum) =>
                 ref = (IF refArgs.elementType = "section" THEN <<"s">> ELSE <<>>)
                          \o WithoutDots(refArgs.num)
           /\ (e = <<>> /\ ~hasNum) => ref = Placeholder(refArgs.elementType)

\* C16 witness: the identifier section-1-2 won over the disagreeing label
\* "1." and gave s1(2)
C16_Witness ==
    /\ rpc = "built"
    /\ refArgs.eId = <<"s", "e", "c", "t", "i", "o", "n", "-", "1", "-", "2">> /\ refArgs.num = <<"1", ".">>
    /\ ref = <<"s", "1", "(", "2", ")">>

\* the text of an element itself, normalized
OwnText(el) == Trim(extractContentText(el.body))

\* C17: for a document made of one section with subsections, the records
\* after the section's own are exactly one per subsection whose own text is
\* non-empty, in order, each with that text as content and the label
\* "<parent number>(<sub number>)"; a blank subsection gives none.
C17_SubsectionRecords ==
    (/\ kpc = "parsed" /\ Len(doc.children) = 1
     /\ doc.children[1].kind = "section"
     /\ ChildrenOf(doc.children[1], "subsection") # <<>>) =>
        LET sec == doc.children[1]
            kept == SelectSeq(ChildrenOf(sec, "subsection"),
                              LAMBDA u : OwnText(u) # <<>>)
            off == IF OwnText(sec) # <<>> THEN 1 ELSE 0
        IN /\ Len(provisions) = off + Len(kept)
           /\ \A i \in DOMAIN kept :
                 /\ provisions[off + i].content = OwnText(kept[i])
                 /\ provisions[off + i].section =
                       OrEmpty(sec.num) \o <<"(">> \o OrEmpty(kept[i].num) \o <<")">>

\* the markup s from position i on is well nested under the open elements in
\* stack (innermost last): every closing tag closes the innermost open
\* element, and nothing stays open
RECURSIVE WellNested(_, _, _)
WellNested(s, i, stack) ==
    IF i > Len(s) THEN stack = <<>>
    ELSE IF s[i] = ">" THEN FALSE
    ELSE IF s[i] # "<" THEN WellNested(s, i + 1, stack)
    ELSE LET g == FirstGt(s, i) IN
         IF g = 0 THEN FALSE
         ELSE IF s[g - 1] = "/" THEN WellNested(s, g + 1, stack)
         ELSE IF s[i + 1] = "/"
              THEN /\ stack # <<>>
                   /\ stack[Len(stack)] = Sub(s, i + 2, g - 1)
                   /\ WellNested(s, g + 1, Sub(stack, 1, Len(stack) - 1))
              ELSE WellNested(s, g + 1, Append(stack, Sub(s, i + 1, g - 1)))

\* the characters of s outside every tag
RECURSIVE TextOutsideTags(_, _)
TextOutsideTags(s, i) ==
    IF i > Len(s) THEN <<>>
    ELSE IF s[i] = "<"
         THEN (IF FirstGt(s, i) = 0 THEN <<>> ELSE TextOutsideTags(s, FirstGt(s, i) + 1))
         ELSE <<s[i]>> \o TextOutsideTags(s, i + 1)

\* C18: flattening well-formed markup made of inline elements and text
\* leaves no tag behind: the output is the text of the input, unchanged.
C18_NoInlineTagsLeft ==
    (xpc = "once" /\ WellNested(xml, 1, <<>>)) =>
        /\ \A k \in DOMAIN flat1 : flat1[k] \notin {"<", ">"}
        /\ flat1 = TextOutsideTags(xml, 1)

\* the entry has a non-empty title, and one of its link URLs or its id holds
\* "/ukpga/<4 digits>/<digits>"
IsCatalogMember(entry) ==
    /\ entry.title # NoneStr /\ entry.title # <<>>
    /\ \/ \E i \in DOMAIN entry.links : UkpgaMatch(OrEmpty(entry.links[i].href)).ok
       \/ UkpgaMatch(OrEmpty(entry.id)).ok

\* C19: the page's stubs are, in page order, one for each entry with a
\* non-empty title whose link URL or id matches /ukpga/<year>/<number>, and
\* none for any other entry.
C19_StubPerValidEntry ==
    (apc = "parsed") =>
        LET members == SelectSeq(feed.entries, IsCatalogMember) IN
        /\ Len(feedResult.entries) = Len(members)
        /\ \A i \in DOMAIN members :
              feedResult.entries[i].title = Trim(CollapseWs(members[i].title))

\* the links of an entry that are marked self or alternate
PreferredLinks(entry) ==
    SelectSeq(entry.links, LAMBDA l : l.rel \in {"self", "alternate"})

\* the URL an entry is known by: the href of its only link, or of the first
\* self/alternate link among several, or of the first link when none is so
\* marked; its id when there is no link or that href is empty
KnownUrl(entry) ==
    LET chosen == IF Len(entry.links) >= 2 /\ PreferredLinks(entry) # <<>>
                  THEN <<PreferredLinks(entry)[1]>>
                  ELSE Sub(entry.links, 1, 1)
    IN IF chosen # <<>> /\ OrEmpty(chosen[1].href) # <<>>
       THEN chosen[1].href ELSE OrEmpty(entry.id)

HasKnownUrl(entry) ==
    /\ entry.title # NoneStr /\ entry.title # <<>>
    /\ UkpgaMatch(KnownUrl(entry)).ok

\* C19 as amended: the page's stubs are, in page order, one for each entry
\* with a non-empty title whose known URL holds /ukpga/<year>/<number>, and
\* none for any other entry; the stub carries that year and number.
C19_StubPerKnownUrl ==
    (apc = "parsed") =>
        LET members == SelectSeq(feed.entries, HasKnownUrl) IN
        /\ Len(feedResult.entries) = Len(members)
        /\ \A i \in DOMAIN members :
              /\ feedResult.entries[i].title = Trim(CollapseWs(members[i].title))
              /\ feedResult.entries[i].year = ParseInt(UkpgaMatch(KnownUrl(members[i])).year)
              /\ feedResult.entries[i].number = ParseInt(UkpgaMatch(KnownUrl(members[i])).number)

\* C19 witness: of two entries, the first (its self link names 2018/12) gave
\* a stub and the second (its only link names another collection) gave none
C19_Witness ==
    /\ apc = "parsed"
    /\ Len(feed.entries) = 2
    /\ feed.entries[1].links = <<Link("other", UrlOther), Link("self", Url2018)>>
    /\ feed.entries[2].links = <<Link("other", UrlOther)>>
    /\ feed.entries[2].title # <<>> /\ feed.entries[2].id = Url1998
    /\ Len(feedResult.entries) = 1
    /\ feedResult.entries[1].year = 2018 /\ feedResult.entries[1].number = 12

\* C20: on a page that yields a stub, hasNextPage holds exactly when the
\* feed carries a rel="next" link, be it the feed's only link or one of
\* several.
C20_NextPageIffNextLink ==
    (apc = "parsed" /\ feedResult.entries # <<>>) =>
        (feedResult.hasNextPage <=> \E i \in DOMAIN feed.links : feed.links[i].rel = "next")

----------------------------------------------------------------------------
(* Search-query normalizer: tokens and variants                            *)

\* the maximal runs of non-whitespace characters of s, in order
RECURSIVE WordsOf(_)
WordsOf(s) ==
    IF s = <<>> THEN <<>>
    ELSE IF IsWs(s[1]) THEN WordsOf(Tail(s))
    ELSE LET n == RunLen(s, 1, "notws") IN
         <<Sub(s, 1, n)>> \o WordsOf(Sub(s, n + 1, Len(s)))

IsTokenChar(c) == IsWord(c) \/ c = "-"

\* the words of s, each without the characters that are neither word
\* characters nor hyphens
CleanWords(s) == [i \in DOMAIN WordsOf(s) |-> SelectSeq(WordsOf(s)[i], IsTokenChar)]

\* every item of toks between pre and post, the items separated by sep
RECURSIVE Rendered(_, _, _, _)
Rendered(toks, pre, post, sep) ==
    IF toks = <<>> THEN <<>>
    ELSE pre \o Head(toks) \o post
         \o (IF Len(toks) = 1 THEN <<>> ELSE sep \o Rendered(Tail(toks), pre, post, sep))

\* C22: for a query without explicit full-text-search syntax and with at
\* least one token, primary is the tokens in input order, each stripped of
\* every character that is not a word character or hyphen and rendered as
\* "<token>"*, joined by single spaces, and fallback is the same tokens each
\* rendered as <token>*, joined by " OR ".
C22_TokenVariants ==
    (fpc = "built" /\ ~HasExplicitSyntax(Trim(query)) /\ WordsOf(query) # <<>>) =>
        /\ variants.primary =
              Rendered(CleanWords(query), <<"\"">>, <<"\"", "*">>, <<" ">>)
        /\ variants.fallback =
              Rendered(CleanWords(query), <<>>, <<"*">>, <<" ", "O", "R", " ">>)

\* C22 witness: a query of several tokens, one of which lost a character,
\* was turned into a primary and a fallback expression
C22_Witness ==
    /\ fpc = "built" /\ ~HasExplicitSyntax(Trim(query))
    /\ Len(WordsOf(query)) >= 2
    /\ CleanWords(query) # WordsOf(query)
    /\ \A i \in DOMAIN CleanWords(query) : CleanWords(query)[i] # <<>>
    /\ variants.fallback # NoneStr

\* the expression holds a quoted prefix term with nothing between the quotes
HasEmptyTerm(s) ==
    \E i \in 1..(Len(s) - 2) : s[i] = "\"" /\ s[i + 1] = "\"" /\ s[i + 2] = "*"

\* C23: a query that leaves no tokens comes back trimmed as the sole variant
\* (no fallback), and for no query at all is the returned primary an empty
\* expression or an expression holding an empty term.
C23_NeverEmptyExpression ==
    (fpc = "built") =>
        /\ (WordsOf(query) = <<>> =>
               variants = [primary |-> Trim(query), fallback |-> NoneStr])
        /\ variants.primary # <<>>
        /\ (~HasExplicitSyntax(Trim(query)) => ~HasEmptyTerm(variants.primary))

----------------------------------------------------------------------------
(* Citation validator: what the verdict depends on                         *)

\* the number a cited section token starts with
SectionNumberOf(p) == Sub(p.section, 1, RunLen(p.section, 1, "digit"))

\* the verdict for citation c2 against store is the one in result v
SameVerdict(store, v, p2) ==
    LET v2 == ParsedValidation(store, p2)
    IN  /\ v2.document_exists = v.document_exists
        /\ v2.provision_exists = v.provision_exists

\* the citations of ValidatorCitations as parseCitation reads them
ParsedValidatorCitations == {parseCitation(c) : c \in ValidatorCitations}

SameTitleAndYear(p1, p2) == p1.valid /\ p2.valid /\ p1.title = p2.title /\ p1.year = p2.year

\* C30 (as stated): two citations with the same title, year and section
\* number that differ only in the subsection and paragraph groups after the
\* number receive the same document_exists and provision_exists against the
\* same store.
C30_VerdictIgnoresGroups ==
    (vpc = "done" /\ ~db.null) =>
        \A p2 \in ParsedValidatorCitations :
            (/\ SameTitleAndYear(validation.citation, p2)
             /\ SectionNumberOf(validation.citation) = SectionNumberOf(p2))
            => SameVerdict(db, validation, p2)

\* C30 (amended): two citations whose parsed title, year and section are
\* equal receive the same document_exists and provision_exists against the
\* same store, whatever their parsed subsection and paragraph.
C30_VerdictIgnoresParsedPinpoint ==
    (vpc = "done" /\ ~db.null) =>
        \A p2 \in ParsedValidatorCitations :
            (/\ SameTitleAndYear(validation.citation, p2)
             /\ validation.citation.section = p2.section)
            => SameVerdict(db, validation, p2)

\* C30 witness: a citation with a subsection and a paragraph was found to
\* exist, as was the same citation with another subsection and no paragraph
C30_Witness ==
    /\ vpc = "done" /\ ~db.null
    /\ validation.citation.valid
    /\ validation.citation.subsection = <<"1">>
    /\ validation.citation.paragraph = <<"a">>
    /\ validation.document_exists /\ validation.provision_exists
    /\ \E c2 \in ValidatorCitations :
          /\ SameTitleAndYear(validation.citation, parseCitation(c2))
          /\ parseCitation(c2).section = validation.citation.section
          /\ parseCitation(c2).subsection = <<"2">>
          /\ parseCitation(c2).paragraph = NoneStr
          /\ SameVerdict(db, validation, parseCitation(c2))

----------------------------------------------------------------------------
(* Act discovery: scripts/ingest.ts                                        *)

\* if (page > 1000) break
PageLimit == 1000

\* most feed pages of a site that differ from its remaining pages
MaxPages == 2

DiscLinksNext == <<Link("next", <<"n">>), Link("self", <<"s">>)>>
DiscLinksLast == <<Link("self", <<"s">>), Link("first", <<"f">>)>>

DiscEntry(title, url) ==
    [title |-> title, id |-> NoneStr, links |-> <<Link("self", url)>>, updated |-> NoneStr]

FeedBody(links, entries) == [links |-> links, entries |-> entries, total |-> NoneStr]

\* what fetchAtomFeed(page) does: it throws, or it returns a status and a body
Answer(status, body) == [threw |-> FALSE, status |-> status, body |-> body]
Thrown == [threw |-> TRUE, status |-> 0, body |-> FeedBody(<<>>, <<>>)]

EndlessPage == Answer(200, FeedBody(DiscLinksNext, <<DiscEntry(<<"A">>, Url2018)>>))

PageKinds ==
    {EndlessPage,
     Answer(200, FeedBody(DiscLinksNext, <<>>)),
     Answer(200, FeedBody(DiscLinksLast, <<DiscEntry(<<"B">>, Url2018)>>)),
     Answer(200, FeedBody(DiscLinksNext, <<DiscEntry(<<"C">>, Url1998)>>)),
     Answer(200, FeedBody(DiscLinksNext,
                          <<DiscEntry(<<"C">>, Url1998), DiscEntry(<<"B">>, Url2018)>>)),
     Answer(200, FeedBody(DiscLinksLast,
                          <<DiscEntry(<<"A">>, Url2018), DiscEntry(<<"B">>, Url2018)>>)),
     Answer(200, FeedBody(DiscLinksNext, <<DiscEntry(<<>>, Url2018)>>)),
     Answer(404, FeedBody(<<>>, <<>>)),
     Thrown}

\* a site answers its first pages one by one and every later page alike
Sites(n) ==
    [pages : SeqsUpTo(PageKinds, n),
     rest : {EndlessPage, Answer(500, FeedBody(<<>>, <<>>))}]

\* await fetchAtomFeed(page)
PageOf(s, p) == IF p <= Len(s.pages) THEN s.pages[p] ELSE s.rest

NoFetch == [threw |-> FALSE, status |-> 0, hasNextPage |-> FALSE, entries |-> 0]

\* const key = `${entry.year}-${entry.number}`
EntryKey(entry) == NumToStr(entry.year) \o <<"-">> \o NumToStr(entry.number)

\* mutant of SeenBefore: no key counts as seen
SeenBefore_Never(keys, i) == FALSE

\* seen.has(key) when the loop reaches entry i: an earlier entry had the key
SeenBefore(keys, i) == \E k \in 1..(i - 1) : keys[k] = keys[i]

\* the k-th smallest member of the set of positions
Nth(positions, k) ==
    CHOOSE i \in positions : Cardinality({j \in positions : j <= i}) = k

\* for (const entry of allEntries) if (!seen.has(key)) { seen.add(key); deduped.push(entry); }
KeptFrom(es, kept) == [k \in 1..Cardinality(kept) |-> es[Nth(kept, k)]]

KeptPositions(keys) == {i \in DOMAIN keys : ~SeenBefore(keys, i)}

KeysOf(es) == [i \in DOMAIN es |-> EntryKey(es[i])]

Deduplicated(es) == KeptFrom(es, KeptPositions(KeysOf(es)))

\* mutant of LoopEnds: only the page limit ends the loop
LoopEnds_LimitOnly(more, next) == next > PageLimit

\* the while condition and the safety limit after page++
LoopEnds(more, next) == ~more \/ next > PageLimit

\* one iteration of the discovery loop; the iteration that leaves the loop
\* also deduplicates and saves the index
PageFetched(result, fr) ==
    /\ allEntries' = allEntries \o fr.entries
    /\ hasMore' = fr.hasNextPage
    /\ page' = page + 1
    /\ lastFetch' = [threw |-> FALSE, status |-> result.status,
                     hasNextPage |-> fr.hasNextPage, entries |-> Len(fr.entries)]
    /\ IF LoopEnds(fr.hasNextPage, page + 1)
       THEN /\ index' = Deduplicated(allEntries \o fr.entries)
            /\ dpc' = "done"
       ELSE /\ index' = index
            /\ dpc' = "loop"

PageRefused(result) ==
    /\ lastFetch' = [threw |-> FALSE, status |-> result.status,
                     hasNextPage |-> FALSE, entries |-> 0]
    /\ index' = Deduplicated(allEntries)
    /\ dpc' = "done"
    /\ UNCHANGED <<allEntries, hasMore, page>>

PageThrew ==
    /\ lastFetch' = [NoFetch EXCEPT !.threw = TRUE]
    /\ dpc' = "failed"
    /\ UNCHANGED <<allEntries, hasMore, page, index>>

FetchPage ==
    /\ dpc = "loop"
    /\ fetched' = fetched + 1
    /\ IF PageOf(site, page).threw THEN PageThrew
       ELSE IF PageOf(site, page).status # 200 THEN PageRefused(PageOf(site, page))
       ELSE PageFetched(PageOf(site, page), parseAtomFeed(PageOf(site, page).body))
    /\ UNCHANGED site
    /\ UNCHANGED <<citeVars, ftsVars, flatVars, feedVars, aknVars, valVars, refVars, ingVars, fetchVars, mcpVars>>

DiscInit ==
    /\ citation = <<>> /\ parsed = NullCitation /\ token = NoneStr
    /\ format = "none" /\ formatted = <<>> /\ reparsed = NullCitation
    /\ cpc = "idle"
    /\ query = <<>> /\ variants = NullVariants /\ fpc = "idle"
    /\ xml = <<>> /\ flat1 = <<>> /\ flat2 = <<>> /\ xpc = "idle"
    /\ feed = <<>> /\ feedResult = NullFeedResult /\ apc = "idle"
    /\ doc = <<>> /\ provisions = <<>> /\ kpc = "idle"
    /\ db = NoDb /\ validation = NullValidation /\ vpc = "idle"
    /\ refArgs = NullRefArgs /\ ref = <<>> /\ rpc = "idle"
    /\ site \in Sites(MaxPages)
    /\ page = 1 /\ hasMore = TRUE /\ allEntries = <<>> /\ index = <<>>
    /\ lastFetch = NoFetch /\ fetched = 0 /\ dpc = "loop"
    /\ acts = <<>> /\ limit = NoLimit /\ seeds = <<>> /\ pos = 0 /\ processed = 0 /\ skipped = 0 /\ failed = 0 /\ totalProvisions = 0 /\ visited = <<>> /\ outcome = <<>> /\ run = 0 /\ ipc = "idle"
    /\ now = 0 /\ lastRequestTime = 0 /\ calls = <<>> /\ lastIssue = <<>> /\ minGap = <<>> /\ delays = 0
    /\ config = [envDb |-> FALSE, bundled |-> FALSE] /\ dbReady = FALSE /\ dbHandle = FALSE /\ tmpDb = <<>> /\ tmpDbTmp = <<>> /\ inv = <<>> /\ invocations = 0

DiscNext == FetchPage

SpecDisc == DiscInit /\ [][DiscNext]_vars

\* the entries of the pages lo..hi of the site that were answered with 200
RECURSIVE EntriesBetween(_, _, _)
EntriesBetween(s, lo, hi) ==
    IF lo > hi THEN <<>>
    ELSE IF lo = hi
    THEN (IF PageOf(s, lo).threw \/ PageOf(s, lo).status # 200 THEN <<>>
          ELSE parseAtomFeed(PageOf(s, lo).body).entries)
    ELSE EntriesBetween(s, lo, (lo + hi) \div 2)
         \o EntriesBetween(s, (lo + hi) \div 2 + 1, hi)

EntriesUpTo(s, n) == EntriesBetween(s, 1, n)

YearNumber(e) == <<e.year, e.number>>

\* the position of the first entry of es with the year and number of e
FirstAt(es, e) ==
    CHOOSE i \in DOMAIN es :
        /\ YearNumber(es[i]) = YearNumber(e)
        /\ \A k \in 1..(i - 1) : YearNumber(es[k]) # YearNumber(e)

FirstSeenIndex(es, ix) ==
    /\ \A i, j \in DOMAIN ix : i # j => YearNumber(ix[i]) # YearNumber(ix[j])
    /\ \A k \in DOMAIN es : \E i \in DOMAIN ix : YearNumber(ix[i]) = YearNumber(es[k])
    /\ \A i \in DOMAIN ix :
          /\ \E k \in DOMAIN es : YearNumber(es[k]) = YearNumber(ix[i])
          /\ ix[i] = es[FirstAt(es, ix[i])]
    /\ \A i, j \in DOMAIN ix : i < j => FirstAt(es, ix[i]) < FirstAt(es, ix[j])

\* C21: the index discoverActs produces has no two entries with the same
\* (year, number); for each key it holds the first entry seen across all
\* fetched pages, and the kept entries are in first-seen order.
C21_FirstSeenWins ==
    (dpc = "done") => FirstSeenIndex(EntriesUpTo(site, fetched), index)

\* C21 witness: four entries over two pages, the third a repetition of the
\* second under another title, gave an index of the first two
C21_Witness ==
    /\ dpc = "done" /\ fetched = 2
    /\ Len(allEntries) = 4 /\ Len(index) = 2
    /\ YearNumber(allEntries[3]) = YearNumber(allEntries[2])
    /\ allEntries[3].title # allEntries[2].title
    /\ index = <<allEntries[1], allEntries[2]>>

\* C27: the discovery loop terminates for every feed behaviour: every step
\* of a running loop fetches one more page, no page is fetched after a page
\* that was not answered with 200 or that reported no next page (as every
\* page without entries does), and never more than 1000 pages are fetched.
C27_LoopTerminates ==
    /\ [](/\ fetched <= 1000
          /\ (dpc = "loop" /\ fetched > 0) =>
                 (lastFetch.status = 200 /\ lastFetch.hasNextPage)
          /\ (lastFetch.status = 200 /\ lastFetch.entries = 0) => ~lastFetch.hasNextPage)
    /\ [][dpc = "loop" /\ fetched' = fetched + 1]_vars

\* C27 witness: the second page had a next link but no entries, and the
\* loop ended with it
C27_Witness ==
    /\ dpc = "done" /\ fetched = 2
    /\ lastFetch.status = 200 /\ lastFetch.entries = 0
    /\ PageOf(site, 2).body.links = DiscLinksNext

----------------------------------------------------------------------------
(* Content ingestion: scripts/ingest.ts                                    *)

\* most acts in an index, and most runs of the pipeline over it
MaxActs == 2
MaxRuns == 2

Act(year, number) == [year |-> year, number |-> number, title |-> <<"T">>]

ActPool == {Act(2018, 12), Act(1998, 7), Act(2018, 1)}

\* indexes as discoverActs saves them: no two acts with the same year and number
ActLists(n) ==
    {as \in SeqsUpTo(ActPool, n) : \A i, j \in DOMAIN as : i # j => as[i] # as[j]}

Limit(n) == [given |-> TRUE, value |-> n]
Limits == {NoLimit, Limit(0), Limit(1), Limit(-1)}

\* acts.slice(0, limit)
SliceTo(as, n) ==
    IF n >= 0 THEN Sub(as, 1, n) ELSE Sub(as, 1, Len(as) + n)

\* const toProcess = limit ? acts.slice(0, limit) : acts
ToProcess(as, lim) ==
    IF lim.given /\ lim.value # 0 THEN SliceTo(as, lim.value) ELSE as

\* path.join(SEED_DIR, `${act.year}_${act.number}.json`), below SEED_DIR
SeedFile(act) ==
    NumToStr(act.year) \o <<"_">> \o NumToStr(act.number) \o <<".", "j", "s", "o", "n">>

SeedFiles == {SeedFile(a) : a \in ActPool}

NoFile == [exists |-> FALSE, id |-> <<>>, provisions |-> <<>>]

ActId(act) ==
    <<"u", "k", "p", "g", "a", "-">> \o NumToStr(act.year) \o <<"-">> \o NumToStr(act.number)

\* the seed written for a 404, 301 or 302
MinimalSeed(act) == [exists |-> TRUE, id |-> ActId(act), provisions |-> <<>>]

\* the seed written for a parsed document
ParsedSeed(act, provs) == [exists |-> TRUE, id |-> ActId(act), provisions |-> provs]

DocNoProvisions == Node("body", <<>>, NoneStr, EmptyBody, <<>>)
DocOneSection ==
    Node("body", <<>>, NoneStr, EmptyBody,
         <<Node("section", IdSection1, Num1, BodyContentP(<<"a">>), <<>>)>>)

\* what fetchAknXml and the parse of its body do for one act: the fetch
\* throws, or it answers with a status and a body, which parses or throws
Reply(class, status, body) == [class |-> class, status |-> status, body |-> body]

Replies ==
    {Reply("200", 200, DocOneSection), Reply("200", 200, DocNoProvisions),
     Reply("404", 404, DocNoProvisions), Reply("301", 301, DocNoProvisions),
     Reply("302", 302, DocNoProvisions), Reply("500", 500, DocNoProvisions),
     Reply("threw", 0, DocNoProvisions), Reply("unparsable", 200, DocNoProvisions)}

Effect(write, failures, provs, rethrown) ==
    [write |-> write, failed |-> failures, provisions |-> provs, rethrown |-> rethrown]

\* mutant of ActEffect: an exception leaves the loop
ActEffect_Rethrow(act, reply) ==
    IF reply.class \in {"threw", "unparsable"} THEN Effect(NoFile, 1, 0, TRUE)
    ELSE Effect(NoFile, 1, 0, FALSE)

\* the body of the try statement and its catch clause, for one act
ActEffect(act, reply) ==
    IF reply.class = "threw" THEN Effect(NoFile, 1, 0, FALSE)
    ELSE IF reply.status # 200
    THEN IF reply.status \in {404, 301, 302}
         THEN Effect(MinimalSeed(act), 1, 0, FALSE)
         ELSE Effect(NoFile, 1, 0, FALSE)
    ELSE IF reply.class = "unparsable" THEN Effect(NoFile, 1, 0, FALSE)
    ELSE Effect(ParsedSeed(act, parseAknXml(reply.body)), 0,
                Len(parseAknXml(reply.body)), FALSE)

\* fs.writeFileSync(seedFile, ...) when the effect has a seed to write
Written(files, file, effect) ==
    IF effect.write.exists THEN [files EXCEPT ![file] = effect.write] ELSE files

\* mutant of SeedExists: no seed is ever found
SeedExists_Never(files, act) == FALSE

\* fs.existsSync(seedFile)
SeedExists(files, act) == files[SeedFile(act)].exists

\* the end of the for loop
AfterAct(next, n) == IF next > n THEN "returned" ELSE "loop"

\* the start of a loop iteration: the act is skipped, or its document is
\* requested and the loop waits for the answer
BeginAct ==
    /\ ipc = "loop"
    /\ pos <= Len(ToProcess(acts, limit))
    /\ visited' = Append(visited, pos)
    /\ IF SeedExists(seeds, ToProcess(acts, limit)[pos])
       THEN /\ skipped' = skipped + 1
            /\ processed' = processed + 1
            /\ pos' = pos + 1
            /\ ipc' = AfterAct(pos + 1, Len(ToProcess(acts, limit)))
       ELSE /\ ipc' = "await"
            /\ UNCHANGED <<skipped, processed, pos>>
    /\ UNCHANGED <<acts, limit, seeds, failed, totalProvisions, outcome, run>>
    /\ UNCHANGED <<citeVars, ftsVars, flatVars, feedVars, aknVars, valVars, refVars, discVars, fetchVars, mcpVars>>

\* the rest of the iteration, once fetchAknXml has settled
ActSettled(act, reply, effect) ==
    /\ seeds' = Written(seeds, SeedFile(act), effect)
    /\ failed' = failed + effect.failed
    /\ totalProvisions' = totalProvisions + effect.provisions
    /\ outcome' = [outcome EXCEPT ![SeedFile(act)] = reply.class]
    /\ IF effect.rethrown
       THEN /\ ipc' = "aborted"
            /\ UNCHANGED <<processed, pos>>
       ELSE /\ processed' = processed + 1
            /\ pos' = pos + 1
            /\ ipc' = AfterAct(pos + 1, Len(ToProcess(acts, limit)))

FinishAct ==
    /\ ipc = "await"
    /\ \E reply \in Replies :
          ActSettled(ToProcess(acts, limit)[pos], reply,
                     ActEffect(ToProcess(acts, limit)[pos], reply))
    /\ UNCHANGED <<acts, limit, skipped, visited, run>>
    /\ UNCHANGED <<citeVars, ftsVars, flatVars, feedVars, aknVars, valVars, refVars, discVars, fetchVars, mcpVars>>

\* an index without acts to process: the loop body never runs
ReturnEmpty ==
    /\ ipc = "loop"
    /\ pos > Len(ToProcess(acts, limit))
    /\ ipc' = "returned"
    /\ UNCHANGED <<acts, limit, seeds, pos, processed, skipped, failed, totalProvisions,
                   visited, outcome, run>>
    /\ UNCHANGED <<citeVars, ftsVars, flatVars, feedVars, aknVars, valVars, refVars, discVars, fetchVars, mcpVars>>

\* the pipeline is run again over the same index and the same seed directory
RunAgain ==
    /\ ipc = "returned"
    /\ run < MaxRuns
    /\ run' = run + 1
    /\ pos' = 1 /\ processed' = 0 /\ skipped' = 0 /\ failed' = 0 /\ totalProvisions' = 0
    /\ visited' = <<>>
    /\ ipc' = "loop"
    /\ UNCHANGED <<acts, limit, seeds, outcome>>
    /\ UNCHANGED <<citeVars, ftsVars, flatVars, feedVars, aknVars, valVars, refVars, discVars, fetchVars, mcpVars>>

IngestInit ==
    /\ citation = <<>> /\ parsed = NullCitation /\ token = NoneStr
    /\ format = "none" /\ formatted = <<>> /\ reparsed = NullCitation
    /\ cpc = "idle"
    /\ query = <<>> /\ variants = NullVariants /\ fpc = "idle"
    /\ xml = <<>> /\ flat1 = <<>> /\ flat2 = <<>> /\ xpc = "idle"
    /\ feed = <<>> /\ feedResult = NullFeedResult /\ apc = "idle"
    /\ doc = <<>> /\ provisions = <<>> /\ kpc = "idle"
    /\ db = NoDb /\ validation = NullValidation /\ vpc = "idle"
    /\ refArgs = NullRefArgs /\ ref = <<>> /\ rpc = "idle"
    /\ site = <<>> /\ page = 0 /\ hasMore = FALSE /\ allEntries = <<>> /\ index = <<>> /\ lastFetch = <<>> /\ fetched = 0 /\ dpc = "idle"
    /\ acts \in ActLists(MaxActs) /\ limit \in Limits
    /\ seeds = [f \in SeedFiles |-> NoFile]
    /\ pos = 1 /\ processed = 0 /\ skipped = 0 /\ failed = 0 /\ totalProvisions = 0
    /\ visited = <<>> /\ outcome = [f \in SeedFiles |-> "none"]
    /\ run = 1 /\ ipc = "loop"
    /\ now = 0 /\ lastRequestTime = 0 /\ calls = <<>> /\ lastIssue = <<>> /\ minGap = <<>> /\ delays = 0
    /\ config = [envDb |-> FALSE, bundled |-> FALSE] /\ dbReady = FALSE /\ dbHandle = FALSE /\ tmpDb = <<>> /\ tmpDbTmp = <<>> /\ inv = <<>> /\ invocations = 0

IngestNext == BeginAct \/ FinishAct \/ ReturnEmpty \/ RunAgain

SpecIngest == IngestInit /\ [][IngestNext]_vars

\* C24: a failure while fetching or parsing one act (an exception or a
\* non-200 answer) never aborts the run: the run never ends early, and when
\* it returns every act to process was attempted, in order, and the
\* processed counter equals their number.
C24_FailureDoesNotAbort ==
    /\ ipc # "aborted"
    /\ (ipc = "returned") =>
          /\ processed = Len(ToProcess(acts, limit))
          /\ visited = [i \in 1..Len(ToProcess(acts, limit)) |-> i]

\* C24 witness: the fetch of the first of two acts threw, the second act was
\* fetched and parsed, and the run returned with both processed
C24_Witness ==
    /\ ipc = "returned" /\ run = 1
    /\ Len(ToProcess(acts, limit)) = 2
    /\ outcome[SeedFile(acts[1])] = "threw"
    /\ outcome[SeedFile(acts[2])] = "200"
    /\ processed = 2 /\ failed = 1

\* the act the loop is at
CurrentFile == SeedFile(ToProcess(acts, limit)[pos])

\* this step requests the document of the current act
FetchIssued == ipc = "loop" /\ ipc' = "await"

\* this step starts the iteration for the current act
ActReached == ipc = "loop" /\ visited' # visited

\* C28: across runs, an act is fetched only if no seed file exists for it at
\* that moment, and an existing seed file is never modified; so an act
\* answered with 200, 404, 301 or 302 (a seed was written) is not fetched
\* again in any later run, and an act that failed with another status or an
\* exception has no seed and is fetched again when the loop next reaches it.
C28_IncrementalIngestion ==
    [][/\ FetchIssued => ~seeds[CurrentFile].exists
       /\ \A f \in SeedFiles : seeds[f].exists => seeds'[f] = seeds[f]
       /\ FetchIssued => outcome[CurrentFile] \notin {"200", "404", "301", "302"}
       /\ (ActReached /\ outcome[CurrentFile] \in {"500", "threw", "unparsable"}) =>
             (~seeds[CurrentFile].exists /\ FetchIssued)
      ]_vars

\* C28 witness: in the second run the first act, answered with 404 in the
\* first run, was skipped, and the second act, answered with 500 in the
\* first run, is being fetched again
C28_Witness ==
    /\ run = 2 /\ ipc = "await" /\ pos = 2
    /\ outcome[SeedFile(acts[1])] = "404" /\ seeds[SeedFile(acts[1])].exists
    /\ outcome[SeedFile(acts[2])] = "500" /\ ~seeds[SeedFile(acts[2])].exists
    /\ skipped = 1 /\ processed = 1

----------------------------------------------------------------------------
(* Rate-limited HTTP client: scripts/lib/fetcher.ts                        *)

\* const MIN_DELAY_MS = 250
MIN_DELAY_MS == 250

\* most calls of fetchWithRateLimit in progress at once, most calls made
\* one after another, most retries a caller asks for, and most response
\* latencies that elapse
MaxCalls == 2
MaxFairCalls == 2
MaxRetriesArg == 2
MaxDelays == 1

Calls(n) == 1..n

\* maxRetries as passed by a caller: an integer, possibly negative
RetryArgs(n) == (-1)..n

\* response statuses, and the time a response takes
Statuses == {200, 429, 500}
LatencyMs == {100}

NewCall ==
    [pc |-> "new", maxRetries |-> 0, attempt |-> 0, due |-> 0, sent |-> 0,
     last |-> 0, result |-> 0]

RECURSIVE Pow2(_)
Pow2(n) == IF n = 0 THEN 1 ELSE 2 * Pow2(n - 1)

\* Math.pow(2, attempt + 1) * 1000
Backoff(attempt) == Pow2(attempt + 1) * 1000

\* response.status === 429 || response.status >= 500
Retriable(status) == status = 429 \/ status >= 500

\* mutant of RetryAllowed: the last attempt is retried as well
RetryAllowed_Always(attempt, maxRetries) == TRUE

\* if (attempt < maxRetries)
RetryAllowed(attempt, maxRetries) == attempt < maxRetries

\* the head of the for loop, for (...; attempt <= maxRetries; ...), followed
\* by fetch(url) or by the throw after the loop
LoopHead(call, attempt, t) ==
    IF attempt <= call.maxRetries
    THEN [call EXCEPT !.pc = "fetch", !.attempt = attempt, !.sent = call.sent + 1,
                     !.due = 0, !.last = 0]
    ELSE [call EXCEPT !.pc = "threw", !.attempt = attempt, !.due = 0, !.last = 0]

\* a request leaves at time t
Issued(call, attempt, t) ==
    IF attempt <= call.maxRetries
    THEN /\ lastIssue' = <<t>>
         /\ minGap' = IF lastIssue = <<>> THEN minGap
                      ELSE IF minGap = <<>> \/ t - lastIssue[1] < minGap[1]
                      THEN <<t - lastIssue[1]>> ELSE minGap
    ELSE UNCHANGED <<lastIssue, minGap>>

\* fetchWithRateLimit is called: rateLimit() up to its await, and, when it
\* does not wait, the first pass through the loop head; the calls are
\* numbered in the order they are made
CallStart(c) ==
    /\ calls[c].pc = "new"
    /\ \A b \in DOMAIN calls : b < c => calls[b].pc # "new"
    /\ \E m \in RetryArgs(MaxRetriesArg) :
          IF now - lastRequestTime < MIN_DELAY_MS
          THEN /\ calls' = [calls EXCEPT ![c] =
                              [calls[c] EXCEPT !.pc = "limit", !.maxRetries = m,
                                               !.due = now + (MIN_DELAY_MS - (now - lastRequestTime))]]
               /\ UNCHANGED <<lastRequestTime, lastIssue, minGap>>
          ELSE /\ lastRequestTime' = now
               /\ calls' = [calls EXCEPT ![c] =
                              LoopHead([calls[c] EXCEPT !.maxRetries = m], 0, now)]
               /\ Issued([calls[c] EXCEPT !.maxRetries = m], 0, now)
    /\ UNCHANGED <<now, delays>>
    /\ UNCHANGED <<citeVars, ftsVars, flatVars, feedVars, aknVars, valVars, refVars, discVars, ingVars, mcpVars>>

\* the timer of rateLimit fires: lastRequestTime = Date.now(), then the loop
LimitWake(c) ==
    /\ calls[c].pc = "limit"
    /\ now >= calls[c].due
    /\ lastRequestTime' = now
    /\ calls' = [calls EXCEPT ![c] = LoopHead(@, 0, now)]
    /\ Issued(calls[c], 0, now)
    /\ UNCHANGED <<now, delays>>
    /\ UNCHANGED <<citeVars, ftsVars, flatVars, feedVars, aknVars, valVars, refVars, discVars, ingVars, mcpVars>>

\* a response arrives: back off and retry, or return it
Respond(c) ==
    /\ calls[c].pc = "fetch"
    /\ \E status \in Statuses :
          calls' = [calls EXCEPT ![c] =
              IF Retriable(status) /\ RetryAllowed(calls[c].attempt, calls[c].maxRetries)
              THEN [calls[c] EXCEPT !.pc = "backoff", !.last = status,
                                    !.due = now + Backoff(calls[c].attempt)]
              ELSE [calls[c] EXCEPT !.pc = "returned", !.last = status, !.result = status]]
    /\ UNCHANGED <<now, lastRequestTime, lastIssue, minGap, delays>>
    /\ UNCHANGED <<citeVars, ftsVars, flatVars, feedVars, aknVars, valVars, refVars, discVars, ingVars, mcpVars>>

\* fetch(url) rejects (no connection): nothing catches it
RequestFails(c) ==
    /\ calls[c].pc = "fetch"
    /\ calls' = [calls EXCEPT ![c].pc = "rejected"]
    /\ UNCHANGED <<now, lastRequestTime, lastIssue, minGap, delays>>
    /\ UNCHANGED <<citeVars, ftsVars, flatVars, feedVars, aknVars, valVars, refVars, discVars, ingVars, mcpVars>>

\* the backoff timer fires: continue, attempt++, and the loop head
BackoffWake(c) ==
    /\ calls[c].pc = "backoff"
    /\ now >= calls[c].due
    /\ calls' = [calls EXCEPT ![c] = LoopHead(calls[c], calls[c].attempt + 1, now)]
    /\ Issued(calls[c], calls[c].attempt + 1, now)
    /\ UNCHANGED <<now, lastRequestTime, delays>>
    /\ UNCHANGED <<citeVars, ftsVars, flatVars, feedVars, aknVars, valVars, refVars, discVars, ingVars, mcpVars>>

Waiting(c) == calls[c].pc \in {"limit", "backoff"} /\ calls[c].due > now

\* time passes while a response is on its way
Elapse ==
    /\ delays < MaxDelays
    /\ \E c \in DOMAIN calls : calls[c].pc = "fetch"
    /\ \E d \in LatencyMs : now' = now + d
    /\ delays' = delays + 1
    /\ UNCHANGED <<lastRequestTime, calls, lastIssue, minGap>>
    /\ UNCHANGED <<citeVars, ftsVars, flatVars, feedVars, aknVars, valVars, refVars, discVars, ingVars, mcpVars>>

\* time passes until the next timer is due
ElapseToTimer ==
    /\ \E c \in DOMAIN calls :
          /\ Waiting(c)
          /\ \A o \in DOMAIN calls : Waiting(o) => calls[c].due <= calls[o].due
          /\ now' = calls[c].due
    /\ UNCHANGED <<lastRequestTime, calls, lastIssue, minGap, delays>>
    /\ UNCHANGED <<citeVars, ftsVars, flatVars, feedVars, aknVars, valVars, refVars, discVars, ingVars, mcpVars>>

FetchInit ==
    /\ citation = <<>> /\ parsed = NullCitation /\ token = NoneStr
    /\ format = "none" /\ formatted = <<>> /\ reparsed = NullCitation
    /\ cpc = "idle"
    /\ query = <<>> /\ variants = NullVariants /\ fpc = "idle"
    /\ xml = <<>> /\ flat1 = <<>> /\ flat2 = <<>> /\ xpc = "idle"
    /\ feed = <<>> /\ feedResult = NullFeedResult /\ apc = "idle"
    /\ doc = <<>> /\ provisions = <<>> /\ kpc = "idle"
    /\ db = NoDb /\ validation = NullValidation /\ vpc = "idle"
    /\ refArgs = NullRefArgs /\ ref = <<>> /\ rpc = "idle"
    /\ site = <<>> /\ page = 0 /\ hasMore = FALSE /\ allEntries = <<>> /\ index = <<>> /\ lastFetch = <<>> /\ fetched = 0 /\ dpc = "idle"
    /\ acts = <<>> /\ limit = NoLimit /\ seeds = <<>> /\ pos = 0 /\ processed = 0 /\ skipped = 0 /\ failed = 0 /\ totalProvisions = 0 /\ visited = <<>> /\ outcome = <<>> /\ run = 0 /\ ipc = "idle"
    /\ now = 1000 /\ lastRequestTime = 0
    /\ calls = [c \in Calls(MaxCalls) |-> NewCall]
    /\ lastIssue = <<>> /\ minGap = <<>> /\ delays = 0
    /\ config = [envDb |-> FALSE, bundled |-> FALSE] /\ dbReady = FALSE /\ dbHandle = FALSE /\ tmpDb = <<>> /\ tmpDbTmp = <<>> /\ inv = <<>> /\ invocations = 0

FetchNext ==
    \/ \E c \in DOMAIN calls :
          CallStart(c) \/ LimitWake(c) \/ Respond(c) \/ RequestFails(c) \/ BackoffWake(c)
    \/ Elapse
    \/ ElapseToTimer

SpecFetch == FetchInit /\ [][FetchNext]_vars

FetchFairInit ==
    /\ citation = <<>> /\ parsed = NullCitation /\ token = NoneStr
    /\ format = "none" /\ formatted = <<>> /\ reparsed = NullCitation
    /\ cpc = "idle"
    /\ query = <<>> /\ variants = NullVariants /\ fpc = "idle"
    /\ xml = <<>> /\ flat1 = <<>> /\ flat2 = <<>> /\ xpc = "idle"
    /\ feed = <<>> /\ feedResult = NullFeedResult /\ apc = "idle"
    /\ doc = <<>> /\ provisions = <<>> /\ kpc = "idle"
    /\ db = NoDb /\ validation = NullValidation /\ vpc = "idle"
    /\ refArgs = NullRefArgs /\ ref = <<>> /\ rpc = "idle"
    /\ site = <<>> /\ page = 0 /\ hasMore = FALSE /\ allEntries = <<>> /\ index = <<>> /\ lastFetch = <<>> /\ fetched = 0 /\ dpc = "idle"
    /\ acts = <<>> /\ limit = NoLimit /\ seeds = <<>> /\ pos = 0 /\ processed = 0 /\ skipped = 0 /\ failed = 0 /\ totalProvisions = 0 /\ visited = <<>> /\ outcome = <<>> /\ run = 0 /\ ipc = "idle"
    /\ now = 1000 /\ lastRequestTime = 0
    /\ calls = [c \in Calls(MaxFairCalls) |-> NewCall]
    /\ lastIssue = <<>> /\ minGap = <<>> /\ delays = 0
    /\ config = [envDb |-> FALSE, bundled |-> FALSE] /\ dbReady = FALSE /\ dbHandle = FALSE /\ tmpDb = <<>> /\ tmpDbTmp = <<>> /\ inv = <<>> /\ invocations = 0

Settled(c) == calls[c].pc \in {"returned", "threw", "rejected"}

\* a caller that awaits each call before it makes the next
CallInTurn(c) ==
    /\ \A b \in DOMAIN calls : b < c => Settled(b)
    /\ CallStart(c)

FetchFairNext ==
    \/ \E c \in DOMAIN calls :
          CallInTurn(c) \/ LimitWake(c) \/ Respond(c) \/ RequestFails(c) \/ BackoffWake(c)
    \/ Elapse
    \/ ElapseToTimer

\* every request is answered or fails, and every timer fires
SpecFetchFair == FetchFairInit /\ [][FetchFairNext]_vars /\ WF_vars(FetchFairNext)

\* what every call keeps to whatever its requests bring: at most
\* maxRetries + 1 requests; a further request only after a 429 or a status
\* of 500 and more, and no sooner than 2^(k+1) * 1000 ms after the k-th
\* (0-based) of these responses; the response returned is the first that is
\* neither, or that of attempt maxRetries
RetryDiscipline(c) ==
    /\ calls[c].sent <= calls[c].maxRetries + 1
    /\ calls[c].pc = "backoff" => (calls[c].last = 429 \/ calls[c].last >= 500)
    /\ calls[c].pc = "returned" =>
          /\ calls[c].result = calls[c].last
          /\ (calls[c].result = 429 \/ calls[c].result >= 500) =>
                calls[c].sent = calls[c].maxRetries + 1

RetryStep(c) ==
    /\ (calls'[c].pc = "backoff" /\ calls[c].pc = "fetch") =>
          calls'[c].due = now + 2^((calls[c].sent - 1) + 1) * 1000
    /\ (calls'[c].sent > calls[c].sent /\ calls[c].sent >= 1) =>
          /\ calls[c].pc = "backoff"
          /\ now >= calls[c].due
    /\ calls[c].pc = "returned" => calls'[c] = calls[c]

\* C25 (as stated): fetchWithRateLimit(url, maxRetries) issues at most
\* maxRetries + 1 requests, retries only after a 429 or a status >= 500,
\* waits 2^(k+1) * 1000 ms after the k-th such response, and always ends by
\* returning a response: the first that is not retriable, or the last one.
C25_RetryPolicy ==
    /\ [](\A c \in Calls(MaxFairCalls) : RetryDiscipline(c))
    /\ [][\A c \in Calls(MaxFairCalls) : RetryStep(c)]_vars
    /\ \A c \in Calls(MaxFairCalls) : <>(calls[c].pc = "returned")

\* C25 (amended): the request count, the retry condition, the waits and the
\* choice of the returned response are as stated, and every call ends; it
\* ends by returning a response when maxRetries >= 0 and every request is
\* answered.  A call with a negative maxRetries throws without a request,
\* and a request that fails without a response rejects the call at once,
\* without a retry.
C25_RetryPolicyAnswered ==
    /\ [](\A c \in Calls(MaxFairCalls) :
            /\ RetryDiscipline(c)
            /\ calls[c].pc = "threw" => (calls[c].maxRetries < 0 /\ calls[c].sent = 0)
            /\ (calls[c].pc \notin {"new", "limit"} /\ calls[c].maxRetries < 0) =>
                  calls[c].pc = "threw")
    /\ [][\A c \in Calls(MaxFairCalls) :
            /\ RetryStep(c)
            /\ calls'[c].pc = "rejected" => calls[c].pc \in {"fetch", "rejected"}]_vars
    /\ \A c \in Calls(MaxFairCalls) : <>Settled(c)

\* C25 witness: a call with maxRetries = 2 got three retriable responses,
\* after waits of 2000 and 4000 ms, and returned the third.
C25_Witness ==
    \E c \in Calls(MaxFairCalls) :
        /\ calls[c].pc = "returned"
        /\ calls[c].maxRetries = 2
        /\ calls[c].sent = 3
        /\ calls[c].result = 500
        /\ now >= 7000

\* C26: any two requests leave at least MIN_DELAY_MS apart, whatever the
\* interleaving of calls and retries.
C26_MinimumSpacing == minGap # <<>> => minGap[1] >= MIN_DELAY_MS

----------------------------------------------------------------------------
(* Cold-start database of the HTTP endpoint: api/mcp.ts                    *)

\* most handler invocations in progress at once, most invocations one
\* process serves, and the number of pieces the database is written in
MaxHandlers == 2
MaxInvocations == 3
MaxChunks == 2

Handlers(n) == 1..n

\* an invocation: where it stands, the file its output stream writes
\* ("tmp": the file named /tmp/database.db.tmp, "db": the file named
\* /tmp/database.db, "gone": a file no name refers to any more), and how
\* many pieces it has written
Idle == [pc |-> "idle", fd |-> "none", written |-> 0]

\* a file is absent (<<>>) or holds some pieces of the database
Absent == <<>>
Holding(pieces) == <<pieces>>
Complete(file, n) == file # Absent /\ file[1] = 1..n

\* ensureDatabase up to its first await (lines 75-97); the stale lock
\* directory it removes does not take part
EnsureFrom(h) ==
    IF dbReady THEN "serve"
    ELSE IF tmpDb # Absent THEN "serve"
    ELSE IF config.envDb THEN "serve"
    ELSE IF config.bundled THEN "import"
    ELSE "get"

\* a POST reaches the handler: await ensureDatabase()
Invoke(h) ==
    /\ inv[h].pc \in {"idle", "done", "error"}
    /\ invocations < MaxInvocations
    /\ invocations' = invocations + 1
    /\ inv' = [inv EXCEPT ![h] = [Idle EXCEPT !.pc = EnsureFrom(h)]]
    /\ dbReady' = (dbReady \/ EnsureFrom(h) = "serve")
    /\ UNCHANGED <<config, dbHandle, tmpDb, tmpDbTmp>>
    /\ UNCHANGED <<citeVars, ftsVars, flatVars, feedVars, aknVars, valVars, refVars, discVars, ingVars, fetchVars>>

\* copyFileSync(bundledDb, TMP_DB); dbReady = true
CopyBundled(h) ==
    /\ inv[h].pc = "import"
    /\ tmpDb' = Holding(1..MaxChunks)
    /\ dbReady' = TRUE
    /\ inv' = [inv EXCEPT ![h].pc = "serve"]
    /\ UNCHANGED <<config, dbHandle, tmpDbTmp, invocations>>
    /\ UNCHANGED <<citeVars, ftsVars, flatVars, feedVars, aknVars, valVars, refVars, discVars, ingVars, fetchVars>>

\* downloadDatabase: the release asset is answered with 200 after the
\* redirects, or with another status, or the request fails
Answered(h) ==
    /\ inv[h].pc = "get"
    /\ \E ok \in BOOLEAN :
          inv' = [inv EXCEPT ![h].pc = IF ok THEN "open" ELSE "error"]
    /\ UNCHANGED <<config, dbReady, dbHandle, tmpDb, tmpDbTmp, invocations>>
    /\ UNCHANGED <<citeVars, ftsVars, flatVars, feedVars, aknVars, valVars, refVars, discVars, ingVars, fetchVars>>

\* createWriteStream(TMP_DB_TMP) opens the file: created, or emptied if it
\* is there
OpenOut(h) ==
    /\ inv[h].pc = "open"
    /\ tmpDbTmp' = Holding({})
    /\ inv' = [inv EXCEPT ![h] = [pc |-> "write", fd |-> "tmp", written |-> 0]]
    /\ UNCHANGED <<config, dbReady, dbHandle, tmpDb, invocations>>
    /\ UNCHANGED <<citeVars, ftsVars, flatVars, feedVars, aknVars, valVars, refVars, discVars, ingVars, fetchVars>>

\* the file after its piece k is written at the stream's own position
WrittenTo(file, k) == Holding(file[1] \cup {k})

\* pipeline(response, gunzip, out) writes the next piece; after the last
\* one it resolves
WriteChunk(h) ==
    /\ inv[h].pc = "write"
    /\ inv[h].written < MaxChunks
    /\ tmpDbTmp' = IF inv[h].fd = "tmp" THEN WrittenTo(tmpDbTmp, inv[h].written + 1) ELSE tmpDbTmp
    /\ tmpDb' = IF inv[h].fd = "db" THEN WrittenTo(tmpDb, inv[h].written + 1) ELSE tmpDb
    /\ inv' = [inv EXCEPT ![h] =
                 [pc |-> IF inv[h].written + 1 = MaxChunks THEN "piped" ELSE "write",
                  fd |-> inv[h].fd, written |-> inv[h].written + 1]]
    /\ UNCHANGED <<config, dbReady, dbHandle, invocations>>
    /\ UNCHANGED <<citeVars, ftsVars, flatVars, feedVars, aknVars, valVars, refVars, discVars, ingVars, fetchVars>>

\* pipeline rejects (the connection breaks, the archive is damaged)
PipelineFails(h) ==
    /\ inv[h].pc = "write"
    /\ inv' = [inv EXCEPT ![h].pc = "error"]
    /\ UNCHANGED <<config, dbReady, dbHandle, tmpDb, tmpDbTmp, invocations>>
    /\ UNCHANGED <<citeVars, ftsVars, flatVars, feedVars, aknVars, valVars, refVars, discVars, ingVars, fetchVars>>

\* the file a stream writes once /tmp/database.db.tmp is renamed
Renamed(fd) == IF fd = "tmp" THEN "db" ELSE IF fd = "db" THEN "gone" ELSE fd

\* renameSync(TMP_DB_TMP, TMP_DB); dbReady = true -- or ENOENT
Rename(h) ==
    /\ inv[h].pc = "piped"
    /\ IF tmpDbTmp # Absent
       THEN /\ tmpDb' = tmpDbTmp
            /\ tmpDbTmp' = Absent
            /\ dbReady' = TRUE
            /\ inv' = [o \in DOMAIN inv |->
                         [pc |-> IF o = h THEN "serve" ELSE inv[o].pc,
                          fd |-> Renamed(inv[o].fd), written |-> inv[o].written]]
       ELSE /\ inv' = [inv EXCEPT ![h].pc = "error"]
            /\ UNCHANGED <<tmpDb, tmpDbTmp, dbReady>>
    /\ UNCHANGED <<config, dbHandle, invocations>>
    /\ UNCHANGED <<citeVars, ftsVars, flatVars, feedVars, aknVars, valVars, refVars, discVars, ingVars, fetchVars>>

\* getDatabase(): new Database(TMP_DB, { readonly: true }) unless db is set;
\* the rest of the handler answers, the catch clause answers 500
Serve(h) ==
    /\ inv[h].pc = "serve"
    /\ IF dbHandle \/ tmpDb # Absent
       THEN /\ dbHandle' = TRUE
            /\ inv' = [inv EXCEPT ![h].pc = "done"]
       ELSE /\ inv' = [inv EXCEPT ![h].pc = "error"]
            /\ UNCHANGED dbHandle
    /\ UNCHANGED <<config, dbReady, tmpDb, tmpDbTmp, invocations>>
    /\ UNCHANGED <<citeVars, ftsVars, flatVars, feedVars, aknVars, valVars, refVars, discVars, ingVars, fetchVars>>

McpInit ==
    /\ citation = <<>> /\ parsed = NullCitation /\ token = NoneStr
    /\ format = "none" /\ formatted = <<>> /\ reparsed = NullCitation
    /\ cpc = "idle"
    /\ query = <<>> /\ variants = NullVariants /\ fpc = "idle"
    /\ xml = <<>> /\ flat1 = <<>> /\ flat2 = <<>> /\ xpc = "idle"
    /\ feed = <<>> /\ feedResult = NullFeedResult /\ apc = "idle"
    /\ doc = <<>> /\ provisions = <<>> /\ kpc = "idle"
    /\ db = NoDb /\ validation = NullValidation /\ vpc = "idle"
    /\ refArgs = NullRefArgs /\ ref = <<>> /\ rpc = "idle"
    /\ site = <<>> /\ page = 0 /\ hasMore = FALSE /\ allEntries = <<>> /\ index = <<>> /\ lastFetch = <<>> /\ fetched = 0 /\ dpc = "idle"
    /\ acts = <<>> /\ limit = NoLimit /\ seeds = <<>> /\ pos = 0 /\ processed = 0 /\ skipped = 0 /\ failed = 0 /\ totalProvisions = 0 /\ visited = <<>> /\ outcome = <<>> /\ run = 0 /\ ipc = "idle"
    /\ now = 0 /\ lastRequestTime = 0 /\ calls = <<>> /\ lastIssue = <<>> /\ minGap = <<>> /\ delays = 0
    /\ config \in [envDb : BOOLEAN, bundled : BOOLEAN]
    /\ dbReady = FALSE /\ dbHandle = FALSE
    /\ tmpDb = <<>> /\ tmpDbTmp = <<>>
    /\ inv = [h \in Handlers(MaxHandlers) |-> Idle]
    /\ invocations = 0

McpNext ==
    \E h \in Handlers(MaxHandlers) :
        \/ Invoke(h)
        \/ CopyBundled(h)
        \/ Answered(h)
        \/ OpenOut(h)
        \/ WriteChunk(h)
        \/ PipelineFails(h)
        \/ Rename(h)
        \/ Serve(h)

SpecMcp == McpInit /\ [][McpNext]_vars

\* C29: whenever dbReady is true, a completely written database is at
\* /tmp/database.db, whichever way it was provided and however the handler
\* invocations interleave.
C29_ReadyMeansComplete == dbReady => Complete(tmpDb, MaxChunks)

\* the same for the database that is downloaded
DownloadedReadyMeansComplete ==
    (~config.envDb /\ ~config.bundled /\ dbReady) => Complete(tmpDb, MaxChunks)

\* the same for the database that is copied from the bundle
BundledReadyMeansComplete ==
    (~config.envDb /\ config.bundled /\ dbReady) => Complete(tmpDb, MaxChunks)

====
